---------------------------- MODULE Spec2Model ----------------------------
(***************************************************************************)
(* A state-machine model of the reactive pipeline of the gugu repository:  *)
(*   - pigeon_socket/bus.py, pigeon_socket/sse_runner.py  (snapshot bus)   *)
(*   - sniffer/drop_head_queue.py, sniffer/trigger.py,                     *)
(*     sniffer/handler_bus.py                              (trigger)       *)
(*   - sniffer/flows/registry.py                           (topic router)  *)
(*   - sniffer/flows/pigeon_flow.py                        (flow handler)  *)
(*   - sniffer/flows/crawler_pool.py                       (crawler pool)  *)
(*   - sniffer/pigeon_pids_query/pigeon_bis_query.py       (run_once)      *)
(*   - sniffer/mqtt_codec.py, sniffer/event_factory.py     (frame decoder) *)
(* Each subsystem has its own variables, its own next-state relation and   *)
(* its own specification; the other subsystems stay parked meanwhile.      *)
(***************************************************************************)
EXTENDS Integers, Sequences, FiniteSets, TLC

VARIABLES
    \* ---- SnapshotBus + SSE generator ----
    snapshot,      \* SnapshotBus._snapshot: 0 is None, n > 0 the n-th published snapshot
    evGen,         \* identity of the asyncio.Event currently held in SnapshotBus._event
    evSet,         \* the Event objects on which set() has been called
    npub,          \* number of publish() calls so far
    spc,           \* per subscriber: position inside gen()
    sev,           \* per subscriber: the Event object its wait_update() waits on
    sent,          \* per subscriber: frames yielded (0 = keep-alive comment, n = bids frame of snapshot n)
    wret,          \* per subscriber: what its last wait_update() returned, and when
    disconnected,  \* per subscriber: request.is_disconnected() would answer True
    \* ---- DropHeadQueue + Trigger + HandlerBus ----
    cap,           \* queue_cap given to Trigger(): asyncio.Queue(maxsize=cap)
    nworkers,      \* n_workers given to Trigger.start()
    queue,         \* asyncio.Queue contents, oldest first; an item is [id, kind]
    unfinished,    \* asyncio.Queue._unfinished_tasks
    nput,          \* number of DropHeadQueue.put calls so far (the id of the last item)
    putsSinceGet,  \* number of put calls since the last DropHeadQueue.get
    wpc,           \* per worker: "get", "emit", "exited" (sentinel) or "dead" (exception)
    hfin,          \* per worker: how many handlers of the current emit() have finished
    hraised,       \* per worker: how many of them raised
    wlast,         \* outcome of the emit() completed last, by any worker
    stopPc,        \* Trigger.stop(): "running", "gather", "returned"
    \* ---- flows/registry.py: topic_router ----
    rRoutes,       \* _routes: per route the set of topics its regex matches
    rEv,           \* the Event given to topic_router: [kind, topic]
    rIdx,          \* position of the `for rx, fn in _routes` loop
    rInvoked,      \* routes whose handler was called for rEv
    rPc,           \* "idle", "in_handler" (awaiting fn), "done"
    \* ---- flows/pigeon_flow.py: handle_pigeon_bid, cold_start_once ----
    clock,         \* time.time(), in clock ticks
    lastRunAt,     \* _last_run_at: pid -> time of the last run (0 when absent)
    sema,          \* free permits of _sema
    ntrig,         \* handle_pigeon_bid invocations so far
    fpc,           \* per invocation: "none", "dropped", "sema_wait", "scraping", "done"
    fpid,          \* per invocation: the pid of its topic
    ftime,         \* per invocation: `now` as it read it
    fcalls,        \* per invocation: the collaborators it called, in order
    bootPc,        \* cold_start_once: "none", "current", "scraping", "done", "skipped"
    bootCalls,     \* cold_start_once: the collaborators it called, in order
    \* ---- flows/crawler_pool.py: CrawlerPool ----
    poolSize,      \* pool_size
    slots,         \* self.slots: slot index -> CrawlerSlot object
    nobj,          \* CrawlerSlot objects constructed so far
    objIdx,        \* per CrawlerSlot object: its index
    objShutdown,   \* per CrawlerSlot object: executor._shutdown
    objQueue,      \* per CrawlerSlot object: calls submitted to its executor, not yet started
    objRunning,    \* per CrawlerSlot object: the call whose run_crawl its thread executes, or 0
    objCrawler,    \* per CrawlerSlot object: "none", "live" or "closed" scraper instance
    rr,            \* next(self._rr_counter) modulo pool_size
    closed,        \* self._closed
    closeAt,       \* close(): 0 not called, k the slot being closed, poolSize + 1 the current probe, poolSize + 2 returned
    closeObj,      \* close(): the CrawlerSlot object the loop holds
    nfaults,       \* executors shut down behind the pool's back so far
    cpc,           \* per run_pid call: "idle", "closing_old", "submitted", "running", "returned", "raised"
    cidx,          \* per run_pid call: the slot index it got
    cobj,          \* per run_pid call: the CrawlerSlot object it holds
    cwhy,          \* per run_pid call: why it raised: "none", "pool_closed", "run_crawl"
    curPc,         \* run_current_once: "idle", "heal_close", "probing", "run_pid", "returned_none", "returned", "raised"
    curWhy,        \* run_current_once: how it came to its end
    curCall,       \* run_current_once: the run_pid call it made, or 0
    curShutdown,   \* self._current_executor._shutdown
    curCrawler,    \* self.current_crawler: "live" or "closed"
    closeLog,      \* what close() has torn down, in order: [op, of], of = 0 the current probe
    ncloseCalls,   \* close() calls so far
    objClosedOn,   \* per CrawlerSlot object: the thread its scraper's close() ran on
    curClosedOn,   \* the thread a current probe's close() ran on
    \* ---- pigeon_pids_query/pigeon_bis_query.py: PigeonService.run_once ----
    svcPc,         \* run_once: "idle", "pool", "db", "returned", "raised"
    svcInfo,       \* current_info it returned: "none" yet, "default" or "given"
    svcRecords,    \* records it returned: "none" yet, "empty" or "built"
    svcWhy,        \* what went wrong on the way, "none" if nothing
    \* ---- pigeon_socket/sse_runner.py: gen() against the wall clock ----
    waited,        \* per subscriber: seconds its current wait_update() has been waiting
    quiet,         \* per subscriber: seconds since it connected or publish() was last called
    heard,         \* per subscriber: the frames it was sent after `quiet` left zero
    \* ---- flows/registry.py + flows/pigeon_flow.py: the route that is registered ----
    pubEv,         \* the Event given to topic_router: [kind, topic], topic split at "/"
    pubPc,         \* "new", "routed"
    pubFlow,       \* whether handle_pigeon_bid was called for pubEv
    \* ---- sniffer/mqtt_codec.py + sniffer/event_factory.py ----
    raw,           \* the bytes of one binary WebSocket message, after b64decode
    framed,        \* the (topic, payload, qos) that raw is the PUBLISH framing of, if it is one
    codecPc,       \* "new", "decoded" (decode_mqtt_publish ran), "made" (from_ws ran)
    pub,           \* what decode_mqtt_publish(raw) returned
    event,         \* what from_ws returned
    \* ---- one call of a function that keeps no state of its own ----
    callArg,       \* the arguments it is called with
    callRet,       \* what it returned; NotCalled before
    callPc,         \* "new", "returned"
    \* ---- dao/pigeon_dao.py: _exec_on_cursor_with_retry, _exec_with_retry ----
    rwWrapper,     \* which of the two: "cursor" or "ctx"
    rwPc,          \* "executing", "returned", "raised"
    rwAttempt,     \* attempt
    rwLog,         \* how each cur.execute ended, in order: "ok" or the errno ("none": the exception has none)
    rwSleeps,      \* the arguments of the sleep calls, in order, in milliseconds
    rwUndone,      \* conn.rollback() calls ("cursor"), connections released uncommitted ("ctx")
    rwRaised,       \* the errno of the exception the wrapper let through; "nothing" when it let none
    \* ---- dao/pigeon_dao.py, dao/gongpeng_dao.py: the tables and one writer ----
    table,         \* the committed rows: id -> value of the other columns, 0 when there is no row
    autocommit,    \* whether the connection commits each statement (direct connection) or not (pooled)
    dao,           \* whose batch upsert is called: "pigeon" or "gongpeng"
    batch,         \* the batch given to the upsert: a sequence of [id, val]
    batchSize,     \* batch_size
    upPc,          \* "idle", "chunks", "returned", "raised"
    upTxn,         \* the rows as the open transaction sees them
    upNext,        \* position in `batch` (sorted) at which the next chunk starts
    upAttempt,     \* attempt, of the _exec_on_cursor_with_retry call in progress
    upFaults,      \* statements that have failed so far
    upCalls,       \* upserts of `batch` that have returned
    afterFirst,     \* the table as the first upsert left it; the table at the start before
    \* ---- dao/gongpeng_dao.py: the auction table under the status sweep ----
    gpTable,      \* the stored rows: id -> [name, status_name]
    gpOp,         \* the method called
    gpArg,        \* its argument: the ids or the items of the latest fetch
    gpPc,         \* "idle", "done" (returned after commit), "failed"
    gpFaults,     \* statements that failed so far
    gpCalls,      \* calls that were applied
    gpBefore,     \* the stored rows when the last call started
    gpAfterFirst,  \* the stored rows the first applied call left
    \* ---- commons/base_crawler.py: one scraper and the thread that uses it ----
    crMin,         \* min_delay, in ticks of the monotonic clock
    crMax,         \* max_delay
    crClock,       \* time.monotonic()
    crLast,        \* _last_request_ts
    crPc,          \* "idle", "sleeping" (in _throttle), "requesting" (in session.request)
    crCall,        \* the wrapper called last and its arguments
    crWait,        \* sleep_s of the _throttle of the call in progress
    crWake,        \* the time at which its sleep is over
    crStart,       \* the time at which the request in progress started
    crReqs,        \* requests completed
    crSessions,    \* sessions built since the last request was sent
    crResult,      \* what the last call gave: "response", "absent", or the exception raised
    crRecreate,    \* recreate_session_on_block
    crOutcome,      \* how the last session.request ended: "none" before the first
    \* GongpengCrawler.crawl_all
    caPc,           \* "idle", "crawling" (inside the while loop) or "returned"
    caPageSize,     \* param_template["pagesize"] after the constructor
    caPageNo,       \* page_no
    caItems,        \* all_items
    caResp,         \* the page each fetch_page call asked for and the list extracted from its answer
    caFull,          \* how many more full pages the server has
    \* fetchall_sections / fetchall_pigeons
    fanPc,          \* "idle", "running" (inside the executor block) or "done"
    fanTasks,       \* len(shuffled)
    fanNext,        \* index of the next submitted task no thread has taken yet
    fanThread,      \* per pool thread: the index of the task it runs, or NoTask
    fanPhase,       \* per pool thread: "idle", "sleep" (in _throttle) or "request"
    fanWake,        \* per pool thread: when its time.sleep ends
    fanLast,        \* per worker instance: _last_request_ts
    fanClock,       \* time.monotonic(), in ticks
    fanDone,        \* tasks completed
    fanSpaced       \* whether every request of a worker began min_delay after its previous one ended

busVars == <<snapshot, evGen, evSet, npub, spc, sev, sent, wret, disconnected>>

trigVars == <<cap, nworkers, queue, unfinished, nput, putsSinceGet, wpc, hfin,
              hraised, wlast, stopPc>>

routerVars == <<rRoutes, rEv, rIdx, rInvoked, rPc>>

flowVars == <<clock, lastRunAt, sema, ntrig, fpc, fpid, ftime, fcalls, bootPc, bootCalls>>

probeVars == <<curPc, curWhy, curCall, curShutdown, curCrawler>>

teardownVars == <<closeLog, ncloseCalls, objClosedOn, curClosedOn>>

poolVars == <<poolSize, slots, nobj, objIdx, objShutdown, objQueue, objRunning,
              objCrawler, rr, closed, closeAt, closeObj, nfaults, cpc, cidx, cobj, cwhy,
              probeVars, teardownVars>>

svcVars == <<svcPc, svcInfo, svcRecords, svcWhy>>
sseVars == <<waited, quiet, heard>>
pubVars == <<pubEv, pubPc, pubFlow>>
codecVars == <<raw, framed, codecPc, pub, event>>
callVars == <<callArg, callRet, callPc>>
retryVars == <<rwWrapper, rwPc, rwAttempt, rwLog, rwSleeps, rwUndone, rwRaised>>
dbVars == <<table, autocommit, dao, batch, batchSize, upPc, upTxn, upNext, upAttempt, upFaults,
            upCalls, afterFirst>>
gpVars == <<gpTable, gpOp, gpArg, gpPc, gpFaults, gpCalls, gpBefore, gpAfterFirst>>
crVars == <<crMin, crMax, crClock, crLast, crPc, crCall, crWait, crWake, crStart, crReqs, crSessions, crResult,
            crRecreate, crOutcome>>
caVars == <<caPc, caPageSize, caPageNo, caItems, caResp, caFull>>
fanVars == <<fanPc, fanTasks, fanNext, fanThread, fanPhase, fanWake, fanLast, fanClock, fanDone, fanSpaced>>

\* the subsystems kept apart from the reactive pipeline
lateVars == <<callVars, retryVars, dbVars, gpVars, crVars, caVars, fanVars>>

earlyVars == <<busVars, trigVars, routerVars, flowVars, poolVars, svcVars, sseVars, pubVars, codecVars>>

\* the subsystems after the first five
moreVars == <<svcVars, sseVars, pubVars, codecVars, lateVars>>

vars == <<busVars, trigVars, routerVars, flowVars, poolVars, moreVars>>

None == 0

\* ------------------------------------------------------------------------
\* Bounds
\* ------------------------------------------------------------------------
NSubs == 1          \* SSE subscribers
MaxPub == 3         \* publish() calls
MaxFrames == 2      \* frames written to one subscriber

MaxCap == 2         \* largest queue capacity tried
MaxWorkers == 2     \* largest worker count tried
MaxPuts == 3        \* push_raw calls
NHandlers == 2      \* handlers registered with Trigger.on

NRoutes == 2        \* routes registered with on_topic
NTopics == 2        \* distinct non-empty topics
NPids == 2          \* distinct pigeon ids seen in topics
MaxTrig == 3        \* handle_pigeon_bid invocations
TicksPerSec == 2    \* resolution of the clock: ticks per second
MaxTicks == 6       \* clock ticks after boot

MaxPool == 2        \* largest pool_size tried
MaxRebuilds == 2    \* slots rebuilt by _recreate_slot
MaxFaults == 1      \* executors shut down behind the pool's back
NCalls == 2         \* run_pid calls
MaxClose == 2        \* close() calls
MaxSegs == 5         \* "/"-separated segments of a topic
MaxHead == 4         \* leading bytes of a binary message that are chosen freely
MaxTopicLen == 2     \* characters of a framed topic
MaxEdge == 1         \* bytes chosen freely at either end of a framed payload
MaxPre == 2          \* bytes in front of an encoded Remaining Length
NDbIds == 2          \* primary keys
NDbVals == 2         \* values of the other columns of a row
MaxBatch == 2        \* rows in a batch
MaxDbFaults == 1     \* statements that fail
NGpIds == 2          \* auction ids
MaxFetch == 2        \* ids or items of a latest fetch
MaxGpFaults == 1     \* statements of the sweep that fail
MaxHist == 3         \* history rows the store holds for one user code
MaxBids == 2         \* rows of a ledger
MaxRows == 3         \* rows of one results list
MaxStr == 3          \* characters of a string that is highlighted
MaxDelay == 2        \* ticks of min_delay and max_delay
MaxClock == 5        \* ticks of the monotonic clock
MaxReqs == 2         \* requests of one scraper
MaxTrail == 2        \* bytes that follow a packet in its buffer

\* ------------------------------------------------------------------------
\* Program constants
\* ------------------------------------------------------------------------
COOLDOWN_SEC == 2       \* seconds
MAX_CONCURRENCY == 4

\* the cooldown in clock ticks
Cooldown == COOLDOWN_SEC * TicksPerSec

Subs == 1..NSubs
Routes == 1..NRoutes
Topics == 1..NTopics
Pids == 1..NPids
Trigs == 1..MaxTrig
SlotIdx == 1..MaxPool
Objs == 1..(MaxPool + MaxRebuilds)
Calls == 1..NCalls
Workers == 1..MaxWorkers

\* ========================================================================
\* SnapshotBus  (pigeon_socket/bus.py)  and  gen()  (pigeon_socket/sse_runner.py)
\* ========================================================================

\* nothing returned by wait_update() since the loop last went round
NoReturn == [val |-> None, at |-> 0, gen |-> 0]

BusInit ==
    /\ snapshot = None
    /\ evGen = 0
    /\ evSet = {}
    /\ npub = 0
    /\ spc = [s \in Subs |-> "idle"]
    /\ sev = [s \in Subs |-> 0]
    /\ sent = [s \in Subs |-> <<>>]
    /\ wret = [s \in Subs |-> NoReturn]
    /\ disconnected = [s \in Subs |-> FALSE]

\* publish(): self._snapshot = snapshot
PublishStore_KeepOld(old, x) == IF old = None THEN x ELSE old
PublishStore(old, x) == x

\* publish(): self._event.set(); self._event = asyncio.Event()
NextEvent_NoRearm(g) == g
NextEvent(g) == g + 1

\* SnapshotBus.publish: the lock is uncontended and the body has no await,
\* so the three assignments are one step of the event loop.
Publish ==
    /\ npub < MaxPub
    /\ npub' = npub + 1
    /\ snapshot' = PublishStore(snapshot, npub + 1)
    /\ evSet' = evSet \cup {evGen}
    /\ evGen' = NextEvent(evGen)
    /\ UNCHANGED <<spc, sev, sent, wret, disconnected>>

\* SnapshotBus.peek
Peek == snapshot

\* gen(): first lines; snap = bus.peek(); one bids frame when a snapshot exists
SubConnect(s) ==
    /\ spc[s] = "idle"
    /\ sent' = [sent EXCEPT ![s] = IF Peek # None THEN <<Peek>> ELSE <<>>]
    /\ spc' = [spc EXCEPT ![s] = "check"]
    /\ UNCHANGED <<snapshot, evGen, evSet, npub, sev, wret, disconnected>>

\* gen(): top of the loop; is_disconnected() breaks, else wait_update() is
\* entered and binds self._event as it is now.
SubCheck(s) ==
    /\ spc[s] = "check"
    /\ IF disconnected[s]
         THEN /\ spc' = [spc EXCEPT ![s] = "closed"]
              /\ sev' = sev
         ELSE /\ spc' = [spc EXCEPT ![s] = "waiting"]
              /\ sev' = [sev EXCEPT ![s] = evGen]
    /\ wret' = [wret EXCEPT ![s] = NoReturn]
    /\ UNCHANGED <<snapshot, evGen, evSet, npub, sent, disconnected>>

\* gen(): `if snap is None: yield b": keep-alive\n\n"` else the bids frame of snap
Frame(snap) == IF snap = None THEN 0 ELSE snap

\* wait_update(): the value returned once the awaited Event is set
WaitUpdateResult == snapshot

\* wait_update() returns after its Event was set: `return self._snapshot` is
\* evaluated when the waiter resumes; gen() yields a bids frame at once.
SubWake(s) ==
    /\ spc[s] = "waiting"
    /\ sev[s] \in evSet
    /\ Len(sent[s]) < MaxFrames
    /\ wret' = [wret EXCEPT ![s] = [val |-> WaitUpdateResult, at |-> npub, gen |-> sev[s]]]
    /\ sent' = [sent EXCEPT ![s] = Append(@, Frame(WaitUpdateResult))]
    /\ spc' = [spc EXCEPT ![s] = "check"]
    /\ sev' = [sev EXCEPT ![s] = 0]
    /\ UNCHANGED <<snapshot, evGen, evSet, npub, disconnected>>

\* wait_update(): `except asyncio.TimeoutError: return None`
TimeoutResult_Snapshot(snap) == snap
TimeoutResult(snap) == None

\* wait_update() times out: returns None, gen() yields the keep-alive comment
SubTimeout(s) ==
    /\ spc[s] = "waiting"
    /\ Len(sent[s]) < MaxFrames
    /\ wret' = [wret EXCEPT ![s] = [val |-> TimeoutResult(snapshot), at |-> npub, gen |-> sev[s]]]
    /\ sent' = [sent EXCEPT ![s] = Append(@, Frame(TimeoutResult(snapshot)))]
    /\ spc' = [spc EXCEPT ![s] = "check"]
    /\ sev' = [sev EXCEPT ![s] = 0]
    /\ UNCHANGED <<snapshot, evGen, evSet, npub, disconnected>>

\* the client goes away
ClientDisconnect(s) ==
    /\ spc[s] # "idle"
    /\ ~disconnected[s]
    /\ disconnected' = [disconnected EXCEPT ![s] = TRUE]
    /\ UNCHANGED <<snapshot, evGen, evSet, npub, spc, sev, sent, wret>>

\* ------------------------------------------------------------------------
\* The same generator against the wall clock, in whole seconds.  Steps of
\* the event loop take no time; only a pending wait_update() lets time pass.
\* Subscribers share nothing but the bus, so the clock follows one of them.

\* gen(): bus.wait_update(timeout=15.0)
WAIT_TIMEOUT == 15

\* the subscriber the clock follows
Timed == {CHOOSE s \in Subs : \A t \in Subs : s <= t}

SseInit ==
    /\ waited = [s \in Subs |-> 0]
    /\ quiet = [s \in Subs |-> 0]
    /\ heard = [s \in Subs |-> <<>>]

\* the frame a step appended to sent[s], kept when it came after second 0
Heard(s) ==
    IF quiet[s] > 0
      THEN [heard EXCEPT ![s] = Append(@, sent'[s][Len(sent'[s])])]
      ELSE heard

SsePublish ==
    /\ Publish
    /\ quiet' = [s \in Subs |-> 0]
    /\ heard' = [s \in Subs |-> <<>>]
    /\ UNCHANGED waited

SseConnect(s) ==
    /\ SubConnect(s)
    /\ quiet' = [quiet EXCEPT ![s] = 0]
    /\ heard' = [heard EXCEPT ![s] = <<>>]
    /\ UNCHANGED waited

SseCheck(s) ==
    /\ SubCheck(s)
    /\ waited' = [waited EXCEPT ![s] = 0]
    /\ UNCHANGED <<quiet, heard>>

SseWake(s) ==
    /\ SubWake(s)
    /\ heard' = Heard(s)
    /\ UNCHANGED <<waited, quiet>>

\* asyncio.wait_for(..., timeout=15.0) gives up once 15 seconds have passed
SseTimeout(s) ==
    /\ waited[s] = WAIT_TIMEOUT
    /\ SubTimeout(s)
    /\ heard' = Heard(s)
    /\ UNCHANGED <<waited, quiet>>

SseDisconnect(s) ==
    /\ ClientDisconnect(s)
    /\ UNCHANGED sseVars

\* One second passes.  It cannot while a generator has a step to take: one
\* that is between two waits, one whose Event is set, one whose wait is over.
SseTick ==
    /\ \E s \in Subs : spc[s] = "waiting"
    /\ \A s \in Subs :
         /\ spc[s] # "check"
         /\ spc[s] = "waiting" => (sev[s] \notin evSet /\ waited[s] < WAIT_TIMEOUT)
    /\ waited' = [s \in Subs |-> IF spc[s] = "waiting" THEN waited[s] + 1 ELSE waited[s]]
    /\ quiet' = [s \in Subs |->
                   IF spc[s] = "waiting" /\ quiet[s] <= WAIT_TIMEOUT THEN quiet[s] + 1 ELSE quiet[s]]
    /\ UNCHANGED <<busVars, heard>>

\* ========================================================================
\* DropHeadQueue (sniffer/drop_head_queue.py), Trigger (sniffer/trigger.py),
\* HandlerBus (sniffer/handler_bus.py)
\* ========================================================================

\* raw messages pushed by the browser hook, by what _worker does with them:
\*   "text"  from_ws builds an Event, which is emitted to the handlers
\*   "ping"  from_ws returns None (heartbeat, short or undecodable frame)
\*   "bad"   not a mapping (m.get raises inside _worker), or a text message whose
\*           data is no string (from_ws raises)
RawKinds == {"text", "ping", "bad"}

Item(n, k) == [id |-> n, kind |-> k]

\* asyncio.Queue.full()
Full(q, c) == Len(q) >= c

\* DropHeadQueue.put: on a full queue get_nowait() removes the head, then the
\* item is appended; `await self._q.put` finds room and does not suspend.
DropHeadPut_DropNewest(q, c, item) ==
    IF Full(q, c) THEN Append(SubSeq(q, 1, Len(q) - 1), item) ELSE Append(q, item)
DropHeadPut(q, c, item) ==
    IF Full(q, c) THEN Append(Tail(q), item) ELSE Append(q, item)

\* _unfinished_tasks across DropHeadQueue.put: task_done() for the dropped
\* head (a ValueError is suppressed), then +1 for the new item
UnfinishedAfterPut(q, c, u) ==
    IF Full(q, c) THEN (IF u > 0 THEN u - 1 ELSE u) + 1 ELSE u + 1

\* EventFactory.from_ws, by message kind: the kind of Event built, or "none"
FromWs(k) == IF k = "text" THEN "ws_text" ELSE "none"

NoEmit == [fin |-> 0, raised |-> 0, acked |-> FALSE, pc |-> "get"]

TrigInit ==
    /\ cap \in 1..MaxCap
    /\ nworkers \in 1..MaxWorkers
    /\ queue = <<>>
    /\ unfinished = 0
    /\ nput = 0
    /\ putsSinceGet = 0
    /\ wpc = [w \in Workers |-> IF w <= nworkers THEN "get" ELSE "unused"]
    /\ hfin = [w \in Workers |-> 0]
    /\ hraised = [w \in Workers |-> 0]
    /\ wlast = NoEmit
    /\ stopPc = "running"

\* Trigger.push_raw
PushRaw(k) ==
    /\ stopPc = "running"
    /\ nput < MaxPuts
    /\ nput' = nput + 1
    /\ putsSinceGet' = putsSinceGet + 1
    /\ queue' = DropHeadPut(queue, cap, Item(nput + 1, k))
    /\ unfinished' = UnfinishedAfterPut(queue, cap, unfinished)
    /\ UNCHANGED <<cap, nworkers, wpc, hfin, hraised, wlast, stopPc>>

\* Trigger._worker: `m = await self._queue.get()` up to the next suspension.
\* A sentinel returns, a non-mapping raises (both through `finally:
\* task_done()`), a message without Event is acknowledged, an Event starts
\* HandlerBus.emit.
WorkerGet(w) ==
    /\ wpc[w] = "get"
    /\ queue # <<>>
    /\ queue' = Tail(queue)
    /\ putsSinceGet' = 0
    /\ LET m == Head(queue) IN
         IF m.kind = "sentinel"
           THEN /\ wpc' = [wpc EXCEPT ![w] = "exited"]
                /\ unfinished' = unfinished - 1
           ELSE IF m.kind = "bad"
             THEN /\ wpc' = [wpc EXCEPT ![w] = "dead"]
                  /\ unfinished' = unfinished - 1
             ELSE IF FromWs(m.kind) = "none"
               THEN /\ wpc' = wpc
                    /\ unfinished' = unfinished - 1
               ELSE /\ wpc' = [wpc EXCEPT ![w] = "emit"]
                    /\ unfinished' = unfinished
    /\ hfin' = [hfin EXCEPT ![w] = 0]
    /\ hraised' = [hraised EXCEPT ![w] = 0]
    /\ UNCHANGED <<cap, nworkers, nput, wlast, stopPc>>

\* one handler coroutine of the gather finishes, normally or with an exception
HandlerFinish(w, ok) ==
    /\ wpc[w] = "emit"
    /\ hfin[w] < NHandlers
    /\ hfin' = [hfin EXCEPT ![w] = @ + 1]
    /\ hraised' = [hraised EXCEPT ![w] = IF ok THEN @ ELSE @ + 1]
    /\ UNCHANGED <<cap, nworkers, queue, unfinished, nput, putsSinceGet, wpc, wlast, stopPc>>

\* HandlerBus.emit: asyncio.gather(..., return_exceptions=True) completes when
\* every handler has finished and hands exceptions back as results.
GatherResult_Propagate(fin, raised) ==
    IF raised > 0 THEN "raise" ELSE IF fin = NHandlers THEN "return" ELSE "pending"
GatherResult(fin, raised) ==
    IF fin = NHandlers THEN "return" ELSE "pending"

\* emit() is over: `finally: task_done()`, then back to `get` (or the worker
\* task ends if emit raised).
WorkerEmitDone(w) ==
    /\ wpc[w] = "emit"
    /\ GatherResult(hfin[w], hraised[w]) # "pending"
    /\ wpc' = [wpc EXCEPT ![w] =
                 IF GatherResult(hfin[w], hraised[w]) = "raise" THEN "dead" ELSE "get"]
    /\ unfinished' = unfinished - 1
    /\ wlast' = [fin |-> hfin[w], raised |-> hraised[w],
                 acked |-> unfinished' = unfinished - 1, pc |-> wpc'[w]]
    /\ hfin' = [hfin EXCEPT ![w] = 0]
    /\ hraised' = [hraised EXCEPT ![w] = 0]
    /\ UNCHANGED <<cap, nworkers, queue, nput, putsSinceGet, stopPc>>

\* Trigger.stop, first half: one sentinel per worker through DropHeadQueue.put;
\* no put suspends, so the loop is one step of the event loop.
RECURSIVE PutSentinels(_, _, _, _)
PutSentinels(q, c, n, id) ==
    IF n = 0 THEN q
    ELSE PutSentinels(DropHeadPut(q, c, Item(id, "sentinel")), c, n - 1, id + 1)

RECURSIVE UnfinishedAfterSentinels(_, _, _, _)
UnfinishedAfterSentinels(q, c, n, u) ==
    IF n = 0 THEN u
    ELSE UnfinishedAfterSentinels(DropHeadPut(q, c, Item(0, "sentinel")), c, n - 1,
                                  UnfinishedAfterPut(q, c, u))

StopCall ==
    /\ stopPc = "running"
    /\ queue' = PutSentinels(queue, cap, nworkers, nput + 1)
    /\ unfinished' = UnfinishedAfterSentinels(queue, cap, nworkers, unfinished)
    /\ nput' = nput + nworkers
    /\ putsSinceGet' = putsSinceGet + nworkers
    /\ stopPc' = "gather"
    /\ UNCHANGED <<cap, nworkers, wpc, hfin, hraised, wlast>>

\* Trigger.stop, second half: gather(*self._workers) completes
StopReturn ==
    /\ stopPc = "gather"
    /\ \A w \in 1..nworkers : wpc[w] \in {"exited", "dead"}
    /\ stopPc' = "returned"
    /\ UNCHANGED <<cap, nworkers, queue, unfinished, nput, putsSinceGet, wpc, hfin,
                   hraised, wlast>>

\* ========================================================================
\* topic_router (sniffer/flows/registry.py)
\* ========================================================================

EventKinds == {"mqtt_publish", "binary", "ws_text"}
NoTopic == 0

RouterInit ==
    /\ rRoutes \in [Routes -> SUBSET Topics]
    /\ rEv = [kind |-> "binary", topic |-> NoTopic]
    /\ rIdx = 0
    /\ rInvoked = {}
    /\ rPc = "idle"

\* rx.match(ev.topic)
Matches(i, topic) == topic \in rRoutes[i]

\* the `for rx, fn in _routes` loop from position i: the first route that
\* matches, or 0 when the loop runs out
NextMatch(i, topic) ==
    LET m == {j \in Routes : j >= i /\ Matches(j, topic)}
    IN IF m = {} THEN 0 ELSE CHOOSE j \in m : \A k \in m : j <= k

\* topic_router up to its first await: the kind/topic test, then the loop up
\* to the first matching route, whose handler is awaited
RouterCall(k, t) ==
    /\ rPc = "idle"
    /\ rEv' = [kind |-> k, topic |-> t]
    /\ IF k # "mqtt_publish" \/ t = NoTopic \/ NextMatch(1, t) = 0
         THEN /\ rPc' = "done"
              /\ rIdx' = 0
              /\ rInvoked' = {}
         ELSE /\ rPc' = "in_handler"
              /\ rIdx' = NextMatch(1, t)
              /\ rInvoked' = {NextMatch(1, t)}
    /\ UNCHANGED rRoutes

\* `return await fn(ev, m)`: a handler that returns ends topic_router; one
\* that raises is logged and the loop goes on to the next matching route
RouteHandlerFinish(ok) ==
    /\ rPc = "in_handler"
    /\ IF ok \/ NextMatch(rIdx + 1, rEv.topic) = 0
         THEN /\ rPc' = "done"
              /\ rIdx' = rIdx
              /\ rInvoked' = rInvoked
         ELSE /\ rPc' = "in_handler"
              /\ rIdx' = NextMatch(rIdx + 1, rEv.topic)
              /\ rInvoked' = rInvoked \cup {NextMatch(rIdx + 1, rEv.topic)}
    /\ UNCHANGED <<rRoutes, rEv>>

\* ========================================================================
\* handle_pigeon_bid, cold_start_once (sniffer/flows/pigeon_flow.py)
\* ========================================================================

FlowInit ==
    /\ clock = Cooldown           \* time.time() is epoch time: beyond the cooldown at boot
    /\ lastRunAt = [p \in Pids |-> 0]
    /\ sema = MAX_CONCURRENCY
    /\ ntrig = 0
    /\ fpc = [t \in Trigs |-> "none"]
    /\ fpid = [t \in Trigs |-> 0]
    /\ ftime = [t \in Trigs |-> 0]
    /\ fcalls = [t \in Trigs |-> <<>>]
    /\ bootPc = "none"
    /\ bootCalls = <<>>

\* the wall clock advances; only handle_pigeon_bid reads it, so it is followed
\* while an invocation can still come
Tick ==
    /\ ntrig < MaxTrig
    /\ clock < Cooldown + MaxTicks
    /\ clock' = clock + 1
    /\ UNCHANGED <<lastRunAt, sema, ntrig, fpc, fpid, ftime, fcalls, bootPc, bootCalls>>

\* `if (now - last) < COOLDOWN_SEC: return`
Debounced_Inclusive(now, last) == (now - last) <= Cooldown
Debounced(now, last) == (now - last) < Cooldown

\* the waiters of _sema, first come first served: the invocation that has
\* waited longest, 0 when none waits
FirstWaiter == IF \E t \in Trigs : fpc[t] = "sema_wait"
                 THEN CHOOSE t \in Trigs : fpc[t] = "sema_wait" /\ \A u \in Trigs : fpc[u] = "sema_wait" => t <= u
                 ELSE 0

\* handle_pigeon_bid up to its first suspension: read the pid, debounce, record
\* the run, enter `async with _sema` (a free semaphore is taken without
\* suspending) and start `asyncio.to_thread(_run_pids_crawler, pid)`.
\* main() awaits run_startup_hooks() before run_browser() starts to feed
\* messages, so the startup hook has ended.
FlowTrigger(p) ==
    /\ bootPc \in {"done", "skipped"}
    /\ ntrig < MaxTrig
    /\ ntrig' = ntrig + 1
    /\ fpid' = [fpid EXCEPT ![ntrig + 1] = p]
    /\ ftime' = [ftime EXCEPT ![ntrig + 1] = clock]
    /\ IF Debounced(clock, lastRunAt[p])
         THEN /\ fpc' = [fpc EXCEPT ![ntrig + 1] = "dropped"]
              /\ lastRunAt' = lastRunAt
              /\ UNCHANGED <<sema, fcalls>>
         ELSE /\ lastRunAt' = [lastRunAt EXCEPT ![p] = clock]
              /\ IF sema > 0
                   THEN /\ sema' = sema - 1
                        /\ fpc' = [fpc EXCEPT ![ntrig + 1] = "scraping"]
                        /\ fcalls' = [fcalls EXCEPT ![ntrig + 1] = Append(@, "run_pids_crawler")]
                   ELSE /\ fpc' = [fpc EXCEPT ![ntrig + 1] = "sema_wait"]
                        /\ UNCHANGED <<sema, fcalls>>
    /\ UNCHANGED <<clock, bootPc, bootCalls>>

\* the scrape returns (or raises): the bids are logged, _sema is released and
\* the handler ends; the released permit goes to the longest waiter, which
\* starts its scrape
FlowScrapeDone(t) ==
    /\ fpc[t] = "scraping"
    /\ IF FirstWaiter = 0
         THEN /\ sema' = sema + 1
              /\ fpc' = [fpc EXCEPT ![t] = "done"]
              /\ fcalls' = fcalls
         ELSE /\ sema' = sema
              /\ fpc' = [fpc EXCEPT ![t] = "done", ![FirstWaiter] = "scraping"]
              /\ fcalls' = [fcalls EXCEPT ![FirstWaiter] = Append(@, "run_pids_crawler")]
    /\ UNCHANGED <<clock, lastRunAt, ntrig, fpid, ftime, bootPc, bootCalls>>

\* cold_start_once with no PIGEON_BOOTSTRAP_PIDS: ask the current probe
BootStart ==
    /\ bootPc = "none"
    /\ bootPc' = "current"
    /\ bootCalls' = Append(bootCalls, "get_current_pid_blocking")
    /\ UNCHANGED <<clock, lastRunAt, sema, ntrig, fpc, fpid, ftime, fcalls>>

\* the probe answers: none (also when it raised) ends the hook; a pid goes to
\* _one(pid): `async with _sema`, free at boot, then the scrape in a thread
BootCurrent(found) ==
    /\ bootPc = "current"
    /\ IF found
         THEN /\ bootPc' = "scraping"
              /\ sema' = sema - 1
              /\ bootCalls' = Append(bootCalls, "run_pids_crawler")
         ELSE /\ bootPc' = "skipped"
              /\ UNCHANGED <<sema, bootCalls>>
    /\ UNCHANGED <<clock, lastRunAt, ntrig, fpc, fpid, ftime, fcalls>>

BootScrapeDone ==
    /\ bootPc = "scraping"
    /\ sema' = sema + 1
    /\ bootPc' = "done"
    /\ UNCHANGED <<clock, lastRunAt, ntrig, fpc, fpid, ftime, fcalls, bootCalls>>

\* ========================================================================
\* CrawlerPool (sniffer/flows/crawler_pool.py)
\* ========================================================================

\* CrawlerPool.__init__: one CrawlerSlot (scraper, lock, single-thread
\* executor) per index, and the current probe with its own executor
PoolInit ==
    /\ poolSize \in 1..MaxPool
    /\ slots = [i \in SlotIdx |-> IF i <= poolSize THEN i ELSE 0]
    /\ nobj = poolSize
    /\ objIdx = [o \in Objs |-> IF o <= poolSize THEN o ELSE 0]
    /\ objShutdown = [o \in Objs |-> FALSE]
    /\ objQueue = [o \in Objs |-> <<>>]
    /\ objRunning = [o \in Objs |-> 0]
    /\ objCrawler = [o \in Objs |-> IF o <= poolSize THEN "live" ELSE "none"]
    /\ rr = 0
    /\ closed = FALSE
    /\ closeAt = 0
    /\ closeObj = 0
    /\ nfaults = 0
    /\ cpc = [c \in Calls |-> "idle"]
    /\ cidx = [c \in Calls |-> 0]
    /\ cobj = [c \in Calls |-> 0]
    /\ cwhy = [c \in Calls |-> "none"]
    /\ curPc = "idle"
    /\ curWhy = "none"
    /\ curCall = 0
    /\ curShutdown = FALSE
    /\ curCrawler = "live"
    /\ closeLog = <<>>
    /\ ncloseCalls = 0
    /\ objClosedOn = [o \in Objs |-> "none"]
    /\ curClosedOn = "none"

\* the executor's thread has nothing to do
ExecutorIdle(o) == objRunning[o] = 0 /\ objQueue[o] = <<>>

\* acquire_slot / the pool_size == 1 fast path: the index the call gets
AcquireIdx == IF poolSize = 1 THEN 1 ELSE rr + 1

\* run_pid up to its first await: the _closed test, the slot choice, the
\* _shutdown test; then either _recreate_slot is entered and suspends on the
\* old scraper's close(), or the work is submitted to the slot's executor
RunPid(c) ==
    /\ cpc[c] = "idle"
    /\ IF closed
         THEN /\ cpc' = [cpc EXCEPT ![c] = "raised"]
              /\ cwhy' = [cwhy EXCEPT ![c] = "pool_closed"]
              /\ UNCHANGED <<rr, cidx, cobj, objQueue>>
         ELSE /\ rr' = IF poolSize = 1 THEN rr ELSE (rr + 1) % poolSize
              /\ cidx' = [cidx EXCEPT ![c] = AcquireIdx]
              /\ cobj' = [cobj EXCEPT ![c] = slots[AcquireIdx]]
              /\ cwhy' = cwhy
              /\ IF objShutdown[slots[AcquireIdx]]
                   THEN /\ cpc' = [cpc EXCEPT ![c] = "closing_old"]
                        /\ objQueue' = objQueue
                   ELSE /\ cpc' = [cpc EXCEPT ![c] = "submitted"]
                        /\ objQueue' = [objQueue EXCEPT ![slots[AcquireIdx]] = Append(@, c)]
    /\ UNCHANGED <<poolSize, slots, nobj, objIdx, objShutdown, objRunning, objCrawler,
                   closed, closeAt, closeObj, nfaults, curShutdown, curCrawler, teardownVars>>

\* a run_pid call made by a caller of the pool
RunPidCall(c) ==
    /\ RunPid(c)
    /\ UNCHANGED <<curPc, curWhy, curCall>>

\* _recreate_slot after the old scraper's close() returned from the loop's
\* default executor: shut the old executor, build a new CrawlerSlot, store it
\* in self.slots[idx]; run_pid then reads self.slots[idx] and submits the
\* work to the new executor
RecreateSlot(c) ==
    /\ cpc[c] = "closing_old"
    /\ nobj < MaxPool + MaxRebuilds
    /\ ExecutorIdle(cobj[c])                 \* shutdown(wait=True) returns
    /\ nobj' = nobj + 1
    /\ objCrawler' = [objCrawler EXCEPT ![cobj[c]] = "closed", ![nobj + 1] = "live"]
    /\ objClosedOn' = [objClosedOn EXCEPT ![cobj[c]] = "default"]
    /\ objShutdown' = [objShutdown EXCEPT ![cobj[c]] = TRUE]
    /\ objIdx' = [objIdx EXCEPT ![nobj + 1] = cidx[c]]
    /\ slots' = [slots EXCEPT ![cidx[c]] = nobj + 1]
    /\ cobj' = [cobj EXCEPT ![c] = nobj + 1]
    /\ objQueue' = [objQueue EXCEPT ![nobj + 1] = <<c>>]
    /\ cpc' = [cpc EXCEPT ![c] = "submitted"]
    /\ UNCHANGED <<poolSize, objRunning, rr, closed, closeAt, closeObj, nfaults, cidx, cwhy,
                   probeVars, closeLog, ncloseCalls, curClosedOn>>

\* the slot's thread takes the next work item: _run_sync_on_slot takes
\* slot.lock and enters crawler.run_crawl(pid)
ExecStart(o) ==
    /\ objRunning[o] = 0
    /\ objQueue[o] # <<>>
    /\ objRunning' = [objRunning EXCEPT ![o] = Head(objQueue[o])]
    /\ objQueue' = [objQueue EXCEPT ![o] = Tail(@)]
    /\ cpc' = [cpc EXCEPT ![Head(objQueue[o])] = "running"]
    /\ UNCHANGED <<poolSize, slots, nobj, objIdx, objShutdown, objCrawler, rr, closed,
                   closeAt, closeObj, nfaults, cidx, cobj, cwhy, probeVars, teardownVars>>

\* run_crawl returns or raises; the future completes and run_pid returns
\* (idx, result) or lets the exception out
ExecFinish(o, ok) ==
    /\ objRunning[o] # 0
    /\ objRunning' = [objRunning EXCEPT ![o] = 0]
    /\ cpc' = [cpc EXCEPT ![objRunning[o]] = IF ok THEN "returned" ELSE "raised"]
    /\ cwhy' = [cwhy EXCEPT ![objRunning[o]] = IF ok THEN @ ELSE "run_crawl"]
    /\ UNCHANGED <<poolSize, slots, nobj, objIdx, objShutdown, objQueue, objCrawler, rr,
                   closed, closeAt, closeObj, nfaults, cidx, cobj, probeVars, teardownVars>>

\* CrawlerSlot.shut_executor called on a slot of the open pool by something
\* other than the pool (the fault run_pid tests for); shutdown(wait=True)
\* returns once the executor's thread is idle
ShutExecutorFault(i) ==
    /\ ~closed
    /\ i <= poolSize
    /\ nfaults < MaxFaults
    /\ ~objShutdown[slots[i]]
    /\ ExecutorIdle(slots[i])
    /\ objShutdown' = [objShutdown EXCEPT ![slots[i]] = TRUE]
    /\ nfaults' = nfaults + 1
    /\ UNCHANGED <<poolSize, slots, nobj, objIdx, objQueue, objRunning, objCrawler, rr,
                   closed, closeAt, closeObj, cpc, cidx, cobj, cwhy, probeVars, teardownVars>>

\* what the current endpoint can answer to the probe's request
ProbeReplies == {"pid", "no_id", "no_response", "not_object", "raises"}

\* CurrentPigeonsCrawler.get_current_pigeon_info, by reply: a pair
\* (info, pid), None when get_current_pigeon_raw gave nothing, or an exception
GetCurrentPigeonInfo(reply) ==
    CASE reply = "pid" -> "pair_pid"
      [] reply = "no_id" -> "pair_nopid"
      [] reply \in {"no_response", "not_object"} -> "none"
      [] OTHER -> "raise"

\* CrawlerPool._get_current_sync: `current_info, pid = ...` unpacks the
\* answer, which raises TypeError on None
GetCurrentSync(reply) ==
    IF GetCurrentPigeonInfo(reply) = "none" THEN "raise" ELSE GetCurrentPigeonInfo(reply)

\* get_current_pid on an open pool: any exception of the executor call is
\* logged and None is returned
GetCurrentPid(reply) ==
    IF GetCurrentSync(reply) = "raise" THEN "none" ELSE GetCurrentSync(reply)

\* run_current_once: `current_info, pid = await self.get_current_pid()`, then
\* `if not pid: return None`, else run_pid
AfterGetCurrentPid(answer) ==
    CASE answer = "none" -> "raise"
      [] answer = "pair_nopid" -> "return_none"
      [] OTHER -> "run_pid"

\* run_current_once up to its first await, inside get_current_pid: on a
\* closed pool None comes back at once; a shut-down current executor is
\* healed, starting with the old probe's close(); else the probe is submitted
\* to the current executor
RunCurrentOnce ==
    /\ curPc = "idle"
    /\ IF closed
         THEN /\ curPc' = IF AfterGetCurrentPid("none") = "raise" THEN "raised" ELSE "returned_none"
              /\ curWhy' = IF AfterGetCurrentPid("none") = "raise" THEN "unpack_closed" ELSE "closed"
         ELSE /\ curPc' = IF curShutdown THEN "heal_close" ELSE "probing"
              /\ curWhy' = curWhy
    /\ UNCHANGED <<poolSize, slots, nobj, objIdx, objShutdown, objQueue, objRunning,
                   objCrawler, rr, closed, closeAt, closeObj, nfaults, cpc, cidx, cobj,
                   cwhy, curCall, curShutdown, curCrawler, teardownVars>>

\* get_current_pid, healing: the old probe's close() returned from the loop's
\* default executor; the old executor is shut, a new probe and a new executor
\* are built and the probe is submitted
CurrentHeal ==
    /\ curPc = "heal_close"
    /\ curPc' = "probing"
    /\ curShutdown' = FALSE
    /\ curCrawler' = "live"
    /\ curClosedOn' = "default"
    /\ UNCHANGED <<poolSize, slots, nobj, objIdx, objShutdown, objQueue, objRunning,
                   objCrawler, rr, closed, closeAt, closeObj, nfaults, cpc, cidx, cobj,
                   cwhy, curWhy, curCall, closeLog, ncloseCalls, objClosedOn>>

\* the probe's thread has run get_current_pigeon_info; get_current_pid
\* returns and run_current_once goes on: it raises, returns None, or enters
\* run_pid(pid), which runs up to its own first await
CurrentProbeDone(reply) ==
    /\ curPc = "probing"
    /\ CASE AfterGetCurrentPid(GetCurrentPid(reply)) = "raise" ->
              /\ curPc' = "raised"
              /\ curWhy' = "unpack"
              /\ UNCHANGED <<curCall, rr, cpc, cidx, cobj, cwhy, objQueue, poolSize, slots,
                             nobj, objIdx, objShutdown, objRunning, objCrawler, closed,
                             closeAt, closeObj, nfaults, curShutdown, curCrawler, teardownVars>>
         [] AfterGetCurrentPid(GetCurrentPid(reply)) = "return_none" ->
              /\ curPc' = "returned_none"
              /\ curWhy' = "no_pid"
              /\ UNCHANGED <<curCall, rr, cpc, cidx, cobj, cwhy, objQueue, poolSize, slots,
                             nobj, objIdx, objShutdown, objRunning, objCrawler, closed,
                             closeAt, closeObj, nfaults, curShutdown, curCrawler, teardownVars>>
         [] OTHER ->
              /\ \E c \in Calls :
                    /\ \A d \in Calls : cpc[d] = "idle" => c <= d
                    /\ RunPid(c)
                    /\ curCall' = c
              /\ curPc' = "run_pid"
              /\ curWhy' = curWhy

\* run_pid has returned to run_current_once, or raised through it
CurrentReturn ==
    /\ curPc = "run_pid"
    /\ cpc[curCall] \in {"returned", "raised"}
    /\ curPc' = cpc[curCall]
    /\ curWhy' = IF cpc[curCall] = "raised" THEN "run_pid" ELSE curWhy
    /\ UNCHANGED <<poolSize, slots, nobj, objIdx, objShutdown, objQueue, objRunning,
                   objCrawler, rr, closed, closeAt, closeObj, nfaults, cpc, cidx, cobj,
                   cwhy, curCall, curShutdown, curCrawler, teardownVars>>

\* the current executor shut down by something other than the pool (the
\* fault get_current_pid tests for)
ShutCurrentFault ==
    /\ ~closed
    /\ nfaults < MaxFaults
    /\ ~curShutdown
    /\ curPc # "probing"
    /\ curShutdown' = TRUE
    /\ nfaults' = nfaults + 1
    /\ UNCHANGED <<poolSize, slots, nobj, objIdx, objShutdown, objQueue, objRunning,
                   objCrawler, rr, closed, closeAt, closeObj, cpc, cidx, cobj, cwhy,
                   curPc, curWhy, curCall, curCrawler, teardownVars>>

\* close(): `if self._closed: return`
CloseReturnsAtOnce_Never(cl) == FALSE
CloseReturnsAtOnce(cl) == cl

\* a close() call: a later call returns at once; the first sets _closed and
\* its loop over self.slots suspends on the first slot's scraper close()
CloseStart ==
    /\ ncloseCalls < MaxClose
    /\ ncloseCalls' = ncloseCalls + 1
    /\ IF CloseReturnsAtOnce(closed)
         THEN UNCHANGED <<closed, closeAt, closeObj>>
         ELSE /\ closed' = TRUE
              /\ closeAt' = 1
              /\ closeObj' = slots[1]
    /\ UNCHANGED <<poolSize, slots, nobj, objIdx, objShutdown, objQueue, objRunning,
                   objCrawler, rr, nfaults, cpc, cidx, cobj, cwhy, probeVars, closeLog,
                   objClosedOn, curClosedOn>>

\* the two steps of tearing one slot down, in the order close() takes them
TearDown_ExecutorFirst(o) == <<[op |-> "executor", of |-> o], [op |-> "crawler", of |-> o]>>
TearDown(o) == <<[op |-> "crawler", of |-> o], [op |-> "executor", of |-> o]>>

\* close(): the scraper's close() returned from the loop's default executor;
\* slot.shut_executor() waits for the slot's thread; the loop takes the next
\* element of self.slots
CloseSlot ==
    /\ closeAt \in 1..poolSize
    /\ ExecutorIdle(closeObj)
    /\ objCrawler' = [objCrawler EXCEPT ![closeObj] = "closed"]
    /\ objClosedOn' = [objClosedOn EXCEPT ![closeObj] = "default"]
    /\ objShutdown' = [objShutdown EXCEPT ![closeObj] = TRUE]
    /\ closeLog' = closeLog \o TearDown(closeObj)
    /\ closeAt' = closeAt + 1
    /\ closeObj' = IF closeAt < poolSize THEN slots[closeAt + 1] ELSE 0
    /\ UNCHANGED <<poolSize, slots, nobj, objIdx, objQueue, objRunning, rr, closed,
                   nfaults, cpc, cidx, cobj, cwhy, probeVars, ncloseCalls, curClosedOn>>

\* close(), after the loop: the probe's close() returned from the default
\* executor, then the current executor's shutdown(wait=True) waits for its
\* thread; close() returns
CloseCurrent ==
    /\ closeAt = poolSize + 1
    /\ curPc # "probing"
    /\ curCrawler' = "closed"
    /\ curClosedOn' = "default"
    /\ curShutdown' = TRUE
    /\ closeLog' = closeLog \o TearDown(0)
    /\ closeAt' = closeAt + 1
    /\ UNCHANGED <<poolSize, slots, nobj, objIdx, objShutdown, objQueue, objRunning,
                   objCrawler, rr, closed, closeObj, nfaults, cpc, cidx, cobj, cwhy,
                   curPc, curWhy, curCall, ncloseCalls, objClosedOn>>

\* ========================================================================
\* PigeonService.run_once (sniffer/pigeon_pids_query/pigeon_bis_query.py)
\* ========================================================================

ServiceInit ==
    /\ svcPc = "idle"
    /\ svcInfo = "none"
    /\ svcRecords = "none"
    /\ svcWhy = "none"

\* run_once up to its first await: it enters pool.run_current_once()
ServiceRunOnce ==
    /\ svcPc = "idle"
    /\ RunCurrentOnce
    /\ svcPc' = "pool"
    /\ UNCHANGED <<svcInfo, svcRecords, svcWhy>>

\* `try: current_info, ret = await self.pool.run_current_once()
\*  except Exception: return default, []`: an exception of the pool, and the
\* TypeError of unpacking its None, end in the except branch
PoolCallOutcome_UnpackOutsideTry(cur) ==
    CASE cur = "raised" -> "except"
      [] cur = "returned_none" -> "raise"
      [] OTHER -> "pair"
PoolCallOutcome(cur) ==
    CASE cur = "raised" -> "except"
      [] cur = "returned_none" -> "except"
      [] OTHER -> "pair"

\* `if not isinstance(current_info, dict)`: the default structure, else the
\* given one with its keys completed
InfoReturned(isDict) == IF isDict THEN "given" ELSE "default"

\* run_current_once has ended.  run_once returns the default pair from the
\* except branch, or checks current_info and ret, makes bids a list and
\* enters build_bid_records_with_history inside `try`: BidRecord.from_list
\* (an exception gives []), then either no online user code, and the records
\* are returned, or the history query is sent to a thread
ServicePoolDone(isDict, fromListOk, online) ==
    /\ svcPc = "pool"
    /\ curPc \in {"raised", "returned_none", "returned"}
    /\ CASE PoolCallOutcome(curPc) = "raise" ->
              /\ svcPc' = "raised"
              /\ svcWhy' = "pool"
              /\ UNCHANGED <<svcInfo, svcRecords>>
         [] PoolCallOutcome(curPc) = "except" ->
              /\ svcPc' = "returned"
              /\ svcInfo' = "default"
              /\ svcRecords' = "empty"
              /\ svcWhy' = "pool"
         [] OTHER ->
              /\ svcInfo' = InfoReturned(isDict)
              /\ IF ~fromListOk
                   THEN /\ svcPc' = "returned"
                        /\ svcRecords' = "empty"
                        /\ svcWhy' = "records"
                   ELSE IF ~online
                     THEN /\ svcPc' = "returned"
                          /\ svcRecords' = "built"
                          /\ svcWhy' = svcWhy
                     ELSE /\ svcPc' = "db"
                          /\ UNCHANGED <<svcRecords, svcWhy>>
    /\ UNCHANGED poolVars

\* _query_history_in_background: the query returned, or failed and {} stands
\* in for its result; the results are injected and the records sorted (an
\* exception there gives [] in run_once); run_once returns
ServiceDbDone(dbOk, sortOk) ==
    /\ svcPc = "db"
    /\ svcPc' = "returned"
    /\ svcRecords' = IF sortOk THEN "built" ELSE "empty"
    /\ svcWhy' = IF ~dbOk THEN "history" ELSE IF ~sortOk THEN "records" ELSE svcWhy
    /\ UNCHANGED <<svcInfo, poolVars>>

\* ========================================================================
\* The route pigeon_flow.py registers (sniffer/flows/pigeon_flow.py,
\* sniffer/flows/registry.py)
\* ========================================================================
\* A topic is the sequence of its "/"-separated segments; none holds a
\* newline.  None and "" are both the empty sequence.

Segments == {"bid", "pigeon", "auctions", "pigeons", "245", "187099", "12a"}

\* \d+
IsDigits(seg) == seg \in {"245", "187099"}

TopicsUpTo(n) == UNION {[1..k -> Segments] : k \in 0..n}

\* @on_topic(r"^bid/pigeons/(?P<pigeon>\d+)$")
PigeonBidPattern(topic) ==
    /\ Len(topic) = 3
    /\ topic[1] = "bid"
    /\ topic[2] = "pigeons"
    /\ IsDigits(topic[3])

\* topic_router: _routes holds the one route of pigeon_flow.py
RouterCalls(ev) ==
    /\ ev.kind = "mqtt_publish"
    /\ ev.topic # <<>>
    /\ PigeonBidPattern(ev.topic)

PubInit ==
    /\ pubEv \in [kind : EventKinds, topic : TopicsUpTo(MaxSegs)]
    /\ pubPc = "new"
    /\ pubFlow = FALSE

PubParked ==
    /\ pubEv = [kind |-> "binary", topic |-> <<>>]
    /\ pubPc = "new"
    /\ pubFlow = FALSE

\* topic_router(ev), up to the call of the handler
TopicRouter ==
    /\ pubPc = "new"
    /\ pubPc' = "routed"
    /\ pubFlow' = RouterCalls(pubEv)
    /\ UNCHANGED pubEv

\* ========================================================================
\* MqttCodec and EventFactory.from_ws (sniffer/mqtt_codec.py,
\* sniffer/event_factory.py)
\* ========================================================================
\* A buffer is a sequence of bytes 0..255, a str a sequence of code points.
\* Positions are the code's: position i is element i + 1 of the sequence.

NoVal == -1                  \* None, where the code returns a number
NoStr == <<NoVal>>           \* None, where the code returns a str
NoPub == [topic |-> NoStr, payload_preview |-> NoStr]
NoEvent == [kind |-> "none", topic |-> NoStr, payload_preview |-> NoStr, length |-> NoVal]

MIN_BIN_LEN == 10
PREVIEW_BYTES == 64
REPLACEMENT == 65533         \* U+FFFD

Take(seq, n) == SubSeq(seq, 1, IF Len(seq) < n THEN Len(seq) ELSE n)

Rep(b, n) == [i \in 1..n |-> b]

\* _mqtt_varint: the loop, entered with the values of mult, val, cnt
RECURSIVE VarintLoop(_, _, _, _, _)
VarintLoop(buf, i, mult, val, cnt) ==
    IF i >= Len(buf) \/ cnt >= 4
      THEN [val |-> NoVal, idx |-> i]
      ELSE LET b == buf[i + 1]
               v == val + (b % 128) * mult
           IN  IF b \div 128 = 0
                 THEN [val |-> v, idx |-> i + 1]
                 ELSE VarintLoop(buf, i + 1, mult * 128, v, cnt + 1)

MqttVarint_ThreeBytes(buf, i) == VarintLoop(buf, i, 1, 0, 1)
MqttVarint(buf, i) == VarintLoop(buf, i, 1, 0, 0)

U16_LittleEndian(buf, i) ==
    IF i + 2 > Len(buf)
      THEN [val |-> NoVal, idx |-> i]
      ELSE [val |-> buf[i + 1] + buf[i + 2] * 256, idx |-> i + 2]

U16(buf, i) ==
    IF i + 2 > Len(buf)
      THEN [val |-> NoVal, idx |-> i]
      ELSE [val |-> buf[i + 1] * 256 + buf[i + 2], idx |-> i + 2]

\* bytes.decode("utf-8", errors): one- and two-byte sequences, which are all
\* that the bytes used here can form.  A byte that starts no sequence, and a
\* lead byte without its continuation byte, is one error: "replace" puts
\* U+FFFD for it, "ignore" nothing.  A continuation byte belongs to the lead
\* byte before it, since a lead byte is never itself a continuation.
IsLead(b) == b >= 194 /\ b <= 223
IsContinuation(b) == b >= 128 /\ b <= 191

Utf8Decode(bytes, errors) ==
    LET Skip == NoVal
        At(i) ==
            LET b == bytes[i] IN
            IF i > 1 /\ IsLead(bytes[i - 1]) /\ IsContinuation(b) THEN Skip
            ELSE IF b < 128 THEN b
            ELSE IF IsLead(b) /\ i < Len(bytes) /\ IsContinuation(bytes[i + 1])
              THEN (b % 32) * 64 + (bytes[i + 1] % 64)
            ELSE IF errors = "replace" THEN REPLACEMENT ELSE Skip
        Kept(c) == c # Skip
    IN  SelectSeq([i \in 1..Len(bytes) |-> At(i)], Kept)

\* str.isspace, for the code points below U+0800
IsSpace(c) == c \in {9, 10, 11, 12, 13, 28, 29, 30, 31, 32, 133, 160}

RECURSIVE LStrip(_)
LStrip(str) == IF str # <<>> /\ IsSpace(str[1]) THEN LStrip(Tail(str)) ELSE str

RECURSIVE RStrip(_)
RStrip(str) ==
    IF str # <<>> /\ IsSpace(str[Len(str)]) THEN RStrip(SubSeq(str, 1, Len(str) - 1)) ELSE str

\* str.strip()
Strip(str) == RStrip(LStrip(str))

\* _read_str
ReadStr(buf, i) ==
    LET ln == U16(buf, i) IN
    IF ln.val = NoVal \/ ln.idx + ln.val > Len(buf)
      THEN [str |-> NoStr, idx |-> ln.idx]
      ELSE [str |-> Utf8Decode(SubSeq(buf, ln.idx + 1, ln.idx + ln.val), "replace"),
            idx |-> ln.idx + ln.val]

\* is_mqtt_ping
IsMqttPing(buf) == Len(buf) >= 2 /\ buf[2] = 0 /\ buf[1] \in {192, 208}

\* decode_mqtt_publish
DecodeMqttPublish(buf) ==
    IF buf = <<>> \/ (buf[1] \div 16) % 16 # 3 THEN NoPub
    ELSE LET flags == buf[1] % 16
             qos == (flags \div 2) % 4
             rem == MqttVarint(buf, 1)
         IN
         IF rem.val = NoVal \/ rem.idx + rem.val > Len(buf) THEN NoPub
         ELSE LET topic == ReadStr(buf, rem.idx) IN
              IF topic.str = NoStr THEN NoPub
              ELSE LET pid == IF qos > 0 THEN U16(buf, topic.idx)
                                         ELSE [val |-> 0, idx |-> topic.idx]
                   IN
                   IF pid.val = NoVal THEN NoPub
                   ELSE LET payload_start == pid.idx
                            ends == 1 + (pid.idx - 1) + rem.val
                            payload_end == IF ends < Len(buf) THEN ends ELSE Len(buf)
                            payload == SubSeq(buf, payload_start + 1, payload_end)
                        IN  [topic |-> topic.str,
                             payload_preview |->
                                 Strip(Utf8Decode(Take(payload, PREVIEW_BYTES), "ignore"))]

\* from_ws, for a binary message whose data decodes to buf
FromWsBinary(buf) ==
    IF IsMqttPing(buf) \/ Len(buf) < MIN_BIN_LEN THEN NoEvent
    ELSE LET p == DecodeMqttPublish(buf) IN
         IF p # NoPub
           THEN [kind |-> "mqtt_publish", topic |-> p.topic,
                 payload_preview |-> p.payload_preview, length |-> NoVal]
           ELSE [kind |-> "binary", topic |-> NoStr, payload_preview |-> NoStr,
                 length |-> Len(buf)]

\* ------------------------------------------------------------------------
\* The buffers the codec is given.

SeqsUpTo(S, n) == UNION {[1..k -> S] : k \in 0..n}

\* 0x00 0x08 0x0A 0x30 0x32 0x80 0xC0 0xD0 0xFF
HeadBytes == {0, 8, 10, 48, 50, 128, 192, 208, 255}
\* "a" 0xFF
FillBytes == {97, 255}

\* freely chosen leading bytes, alone or followed by as many equal bytes as
\* bring two leading bytes to the minimum length
RawInputs ==
    {h \o Rep(f, n) : h \in SeqsUpTo(HeadBytes, MaxHead), f \in FillBytes,
                      n \in {0, MIN_BIN_LEN - 2}}

\* "a" "/" U+00E9
TopicChars == {97, 47, 233}
\* " " "{" 0xC3 0xFF
EdgeBytes == {32, 123, 195, 255}

Payloads ==
    {h \o Rep(97, n) \o t : h \in SeqsUpTo(EdgeBytes, MaxEdge), t \in SeqsUpTo(EdgeBytes, MaxEdge),
                            n \in {0, PREVIEW_BYTES - 1, 2 * PREVIEW_BYTES}}

NoFraming == [topic |-> NoStr, payload |-> <<>>, qos |-> NoVal]

\* str.encode("utf-8"), for code points below U+0800
RECURSIVE Utf8Encode(_)
Utf8Encode(str) ==
    IF str = <<>> THEN <<>>
    ELSE LET c == str[1] IN
         (IF c < 128 THEN <<c>> ELSE <<192 + (c \div 64), 128 + (c % 64)>>) \o Utf8Encode(Tail(str))

\* the Remaining Length of MQTT 3.1.1, section 2.2.3
RECURSIVE EncodeVarint(_)
EncodeVarint(n) ==
    IF n < 128 THEN <<n>> ELSE <<128 + (n % 128)>> \o EncodeVarint(n \div 128)

\* the PUBLISH packet of MQTT 3.1.1, section 3.3: fixed header with the QoS
\* in bits 1-2, Remaining Length, topic name, packet identifier when
\* QoS > 0, payload
PublishFraming(f) ==
    LET name == Utf8Encode(f.topic)
        body == <<Len(name) \div 256, Len(name) % 256>> \o name
                \o (IF f.qos > 0 THEN <<0, 1>> ELSE <<>>) \o f.payload
    IN  <<48 + 2 * f.qos>> \o EncodeVarint(Len(body)) \o body

CodecStart ==
    /\ codecPc = "new"
    /\ pub = NoPub
    /\ event = NoEvent

CodecInit ==
    /\ raw \in RawInputs
    /\ framed = NoFraming
    /\ CodecStart

FramingInit ==
    /\ framed \in [topic : SeqsUpTo(TopicChars, MaxTopicLen), payload : Payloads, qos : 0..2]
    /\ raw = PublishFraming(framed)
    /\ CodecStart

\* "b" and 0x30, the first byte of a further PUBLISH
TrailBytes == {98, 48}

\* a PUBLISH framing followed in the same buffer by the first bytes of whatever comes next
TrailingInit ==
    /\ framed \in [topic : SeqsUpTo(TopicChars, MaxTopicLen), payload : Payloads, qos : 0..2]
    /\ raw \in {PublishFraming(framed) \o t : t \in SeqsUpTo(TrailBytes, MaxTrail)}
    /\ CodecStart

CodecParked ==
    /\ raw = <<>>
    /\ framed = NoFraming
    /\ CodecStart

\* MqttCodec.decode_mqtt_publish(raw)
DecodeCall ==
    /\ codecPc = "new"
    /\ pub' = DecodeMqttPublish(raw)
    /\ codecPc' = "decoded"
    /\ UNCHANGED <<raw, framed, event>>

\* EventFactory.from_ws({"kind": "binary", "data": b64encode(raw)})
FromWsCall ==
    /\ codecPc = "new"
    /\ event' = FromWsBinary(raw)
    /\ codecPc' = "made"
    /\ UNCHANGED <<raw, framed, pub>>

\* ========================================================================
\* Single calls of functions that keep no state
\* ========================================================================

NotCalled == [none |-> TRUE]

CallParked ==
    /\ callArg = NotCalled
    /\ callRet = NotCalled
    /\ callPc = "new"

\* ------------------------------------------------------------------------
\* MqttCodec._mqtt_varint on the encodings of numbers (sniffer/mqtt_codec.py)

\* the numbers whose four base-128 digits are the least, the next and the
\* greatest digit: 0, 1, 127, 128, ..., 16383, 16384, ..., 268435455
VarintDigits == {0, 1, 127}
VarintNumbers ==
    {d[1] + 128 * d[2] + 128 * 128 * d[3] + 128 * 128 * 128 * d[4] : d \in [1..4 -> VarintDigits]}

\* the encoding of n after `pre` bytes with the continuation bit set, followed
\* by the bytes `post`
VarintInit ==
    /\ \E n \in VarintNumbers, pre \in 0..MaxPre, post \in {<<>>, <<0>>, <<128, 1>>} :
         callArg = [n |-> n, buf |-> Rep(128, pre) \o EncodeVarint(n) \o post, i |-> pre]
    /\ callRet = NotCalled
    /\ callPc = "new"

\* MqttCodec._mqtt_varint(buf, i)
VarintCall ==
    /\ callPc = "new"
    /\ callRet' = MqttVarint(callArg.buf, callArg.i)
    /\ callPc' = "returned"
    /\ UNCHANGED callArg

\* ========================================================================
\* The retry wrappers of PigeonDao (dao/pigeon_dao.py)
\* ========================================================================

max_retries == 3
base_sleep_ms == 200         \* base_sleep = 0.2, in milliseconds

\* how a cur.execute can end: "ok", or the errno of its exception (1205 lock
\* wait timeout, 1213 deadlock, 1062 duplicate entry), "none" for an exception
\* that has no errno
ExecOutcomes == {"ok", "1205", "1213", "1062", "none"}

RECURSIVE Pow2(_)
Pow2(k) == IF k = 0 THEN 1 ELSE 2 * Pow2(k - 1)

\* err_no in (1205, 1213) and attempt < max_retries
Retryable_OneMore(err_no, attempt) ==
    err_no \in {"1205", "1213"} /\ attempt <= max_retries
Retryable(err_no, attempt) ==
    err_no \in {"1205", "1213"} /\ attempt < max_retries

\* sleep = base_sleep * (2 ** attempt)
Backoff(attempt) == base_sleep_ms * Pow2(attempt)

RetryInit ==
    /\ rwWrapper \in {"cursor", "ctx"}
    /\ rwPc = "executing"
    /\ rwAttempt = 0
    /\ rwLog = <<>>
    /\ rwSleeps = <<>>
    /\ rwUndone = 0
    /\ rwRaised = "nothing"

RetryParked ==
    /\ rwWrapper = "cursor"
    /\ rwPc = "returned"
    /\ rwAttempt = 0
    /\ rwLog = <<>>
    /\ rwSleeps = <<>>
    /\ rwUndone = 0
    /\ rwRaised = "nothing"

\* One turn of `while True`: cur.execute ends as `outcome`.  In the "cursor"
\* wrapper conn.rollback() is called before the sleep, and an exception of
\* it is swallowed; in the "ctx" wrapper the `with` block has released the
\* connection, commit not reached, before the except clause runs.
ExecAttempt(outcome) ==
    /\ rwPc = "executing"
    /\ rwLog' = Append(rwLog, outcome)
    /\ IF outcome = "ok"
         THEN /\ rwPc' = "returned"
              /\ UNCHANGED <<rwAttempt, rwSleeps, rwUndone, rwRaised>>
         ELSE /\ rwUndone' = IF rwWrapper = "ctx" \/ Retryable(outcome, rwAttempt)
                               THEN rwUndone + 1 ELSE rwUndone
              /\ IF Retryable(outcome, rwAttempt)
                   THEN /\ rwSleeps' = Append(rwSleeps, Backoff(rwAttempt))
                        /\ rwAttempt' = rwAttempt + 1
                        /\ UNCHANGED <<rwPc, rwRaised>>
                   ELSE /\ rwPc' = "raised"
                        /\ rwRaised' = outcome
                        /\ UNCHANGED <<rwAttempt, rwSleeps>>
    /\ UNCHANGED rwWrapper

\* ========================================================================
\* Batch upsert (dao/pigeon_dao.py, dao/gongpeng_dao.py)
\* ========================================================================
\* A row is its primary key and one value standing for all other columns.

DbIds == 1..NDbIds
DbVals == 1..NDbVals
Tables == [DbIds -> 0..NDbVals]
Batches == UNION {[1..k -> [id : DbIds, val : DbVals]] : k \in 0..MaxBatch}

\* list.sort(key=lambda x: x.id), which is stable: insertion of the last
\* element into the sorted rest, behind the elements that are not greater
RECURSIVE SortById(_)
SortById(seq) ==
    IF Len(seq) <= 1 THEN seq
    ELSE LET init == SortById(SubSeq(seq, 1, Len(seq) - 1))
             x == seq[Len(seq)]
             k == Cardinality({i \in 1..Len(init) : init[i].id <= x.id})
         IN  SubSeq(init, 1, k) \o <<x>> \o SubSeq(init, k + 1, Len(init))

\* INSERT ... ON DUPLICATE KEY UPDATE of the rows, in order
RECURSIVE UpsertRows(_, _)
UpsertRows(t, rows) ==
    IF rows = <<>> THEN t
    ELSE UpsertRows([t EXCEPT ![rows[1].id] = rows[1].val], Tail(rows))

DbInit ==
    /\ table \in Tables
    /\ autocommit \in BOOLEAN
    /\ dao \in {"pigeon", "gongpeng"}
    /\ batch \in Batches
    /\ batchSize \in 1..MaxBatch
    /\ upPc = "idle"
    /\ upTxn = table
    /\ upNext = 1
    /\ upAttempt = 0
    /\ upFaults = 0
    /\ upCalls = 0
    /\ afterFirst = table

DbParked ==
    /\ table = [i \in DbIds |-> 0]
    /\ autocommit = FALSE
    /\ dao = "pigeon"
    /\ batch = <<>>
    /\ batchSize = 1
    /\ upPc = "idle"
    /\ upTxn = table
    /\ upNext = 1
    /\ upAttempt = 0
    /\ upFaults = 0
    /\ upCalls = 0
    /\ afterFirst = table

\* what a call leaves behind when it returns
Returned(t) ==
    /\ upPc' = "returned"
    /\ upCalls' = upCalls + 1
    /\ afterFirst' = IF upCalls = 0 THEN t ELSE afterFirst

\* insert_or_update_pigeon_info_batch / batch_upsert is called with `batch`:
\* an empty batch returns at once; else the batch is sorted (pigeon) and a
\* connection is taken
UpsertCall ==
    /\ upPc \in {"idle", "returned"}
    /\ upCalls < 2
    /\ IF batch = <<>>
         THEN /\ Returned(table)
              /\ UNCHANGED <<batch, upTxn, upNext, upAttempt>>
         ELSE /\ upPc' = "chunks"
              /\ batch' = IF dao = "pigeon" THEN SortById(batch) ELSE batch
              /\ upTxn' = table
              /\ upNext' = 1
              /\ upAttempt' = 0
              /\ UNCHANGED <<upCalls, afterFirst>>
    /\ UNCHANGED <<table, autocommit, dao, batchSize, upFaults>>

\* the chunk that starts at upNext: batch_size rows (pigeon), all rows (gongpeng)
ChunkEnd ==
    IF dao = "gongpeng" \/ upNext + batchSize - 1 > Len(batch)
      THEN Len(batch) ELSE upNext + batchSize - 1

\* The statement of the current chunk succeeds.  After the last chunk
\* conn.commit() follows and the call returns.
ChunkDone ==
    /\ upPc = "chunks"
    /\ LET seen == UpsertRows(upTxn, SubSeq(batch, upNext, ChunkEnd))
           last == ChunkEnd = Len(batch)
       IN  /\ upTxn' = seen
           /\ table' = IF autocommit \/ last THEN seen ELSE table
           /\ IF last
                THEN /\ Returned(seen)
                     /\ UNCHANGED upNext
                ELSE /\ upNext' = ChunkEnd + 1
                     /\ UNCHANGED <<upPc, upCalls, afterFirst>>
    /\ upAttempt' = 0
    /\ UNCHANGED <<autocommit, dao, batch, batchSize, upFaults>>

\* The statement of the current chunk fails and has no effect of its own.
\* pigeon: _exec_on_cursor_with_retry calls conn.rollback() and goes round
\* again, or re-raises.  gongpeng: the error is logged and re-raised.  A
\* rollback, and a connection released before commit, discard what the
\* transaction wrote, unless every statement was committed on its own.
ChunkFails(err_no) ==
    /\ upPc = "chunks"
    /\ upFaults < MaxDbFaults
    /\ upFaults' = upFaults + 1
    /\ upTxn' = IF autocommit THEN upTxn ELSE table
    /\ IF dao = "pigeon" /\ Retryable(err_no, upAttempt)
         THEN /\ upAttempt' = upAttempt + 1
              /\ UNCHANGED upPc
         ELSE /\ upPc' = "raised"
              /\ UNCHANGED upAttempt
    /\ UNCHANGED <<table, autocommit, dao, batch, batchSize, upNext, upCalls, afterFirst>>

\* ========================================================================
\* Status sweep (dao/gongpeng_dao.py)
\* ========================================================================
\* A row of gongpeng_info is its primary key, its status_name and one value
\* standing for all other columns.

GpIds == 1..NGpIds
GpNames == {"a", "b"}
FINISHED == "finished"
GpStatuses == {"running", FINISHED}
GpRows == [name : GpNames, status_name : GpStatuses]
GpTables == UNION {[D -> GpRows] : D \in SUBSET GpIds}
GpItems == [id : GpIds, name : GpNames, status_name : GpStatuses]

Range(seq) == {seq[i] : i \in DOMAIN seq}

\* UPDATE gongpeng_info SET status_name = (the finished status) WHERE id NOT IN (S)
StatusSweep_In(t, S) ==
    [i \in DOMAIN t |-> IF i \in S THEN [t[i] EXCEPT !.status_name = FINISHED] ELSE t[i]]

StatusSweep(t, S) ==
    [i \in DOMAIN t |-> IF i \notin S THEN [t[i] EXCEPT !.status_name = FINISHED] ELSE t[i]]

\* INSERT ... ON DUPLICATE KEY UPDATE of the items, in order
RECURSIVE GpUpsert(_, _)
GpUpsert(t, items) ==
    IF items = <<>> THEN t
    ELSE LET it == items[1]
             row == [name |-> it.name, status_name |-> it.status_name]
         IN  GpUpsert([i \in DOMAIN t \cup {it.id} |-> IF i = it.id THEN row ELSE t[i]],
                      Tail(items))

GpArgs(op) ==
    IF op = "make_status_as_finished"
      THEN UNION {[1..k -> GpIds] : k \in 0..MaxFetch}
      ELSE UNION {[1..k -> GpItems] : k \in 0..MaxFetch}

GpInit ==
    /\ gpTable \in GpTables
    /\ gpOp \in {"make_status_as_finished", "batch_upsert_and_status"}
    /\ gpArg \in GpArgs(gpOp)
    /\ gpPc = "idle"
    /\ gpFaults = 0
    /\ gpCalls = 0
    /\ gpBefore = gpTable
    /\ gpAfterFirst = gpTable

GpParked ==
    /\ gpTable = <<>>
    /\ gpOp = "make_status_as_finished"
    /\ gpArg = <<>>
    /\ gpPc = "idle"
    /\ gpFaults = 0
    /\ gpCalls = 0
    /\ gpBefore = gpTable
    /\ gpAfterFirst = gpTable

\* what a call that went through leaves behind
GpApplied(t) ==
    /\ gpTable' = t
    /\ gpBefore' = gpTable
    /\ gpPc' = "done"
    /\ gpCalls' = gpCalls + 1
    /\ gpAfterFirst' = IF gpCalls = 0 THEN t ELSE gpAfterFirst
    /\ UNCHANGED <<gpOp, gpArg, gpFaults>>

\* make_status_as_finished(current_ids): an empty list returns at once,
\* else the one UPDATE is executed and committed
MakeStatusAsFinished ==
    /\ gpOp = "make_status_as_finished"
    /\ gpCalls < 2
    /\ GpApplied(IF gpArg = <<>> THEN gpTable ELSE StatusSweep(gpTable, Range(gpArg)))

\* batch_upsert_and_status(items): an empty list returns at once, else the
\* items are upserted, the rows of all other ids are swept, and both are
\* committed together
BatchUpsertAndStatus ==
    /\ gpOp = "batch_upsert_and_status"
    /\ gpCalls < 2
    /\ GpApplied(IF gpArg = <<>> THEN gpTable
                 ELSE StatusSweep(GpUpsert(gpTable, gpArg), {gpArg[i].id : i \in DOMAIN gpArg}))

\* A statement of the call raises mysql.connector.Error: nothing is
\* committed.  make_status_as_finished logs it and returns,
\* batch_upsert_and_status logs it and re-raises.
GpStatementFails ==
    /\ gpArg # <<>>
    /\ gpCalls < 2
    /\ gpFaults < MaxGpFaults
    /\ gpFaults' = gpFaults + 1
    /\ gpPc' = IF gpOp = "make_status_as_finished" THEN "failed" ELSE "raised"
    /\ gpBefore' = gpTable
    /\ UNCHANGED <<gpTable, gpOp, gpArg, gpCalls, gpAfterFirst>>

\* ========================================================================
\* Enrichment (sniffer/pigeon_pids_query/pigeon_bis_query.py)
\* ========================================================================
\* The store holds, for every user code, the finished lots that user bought:
\* rows (quote, auction_id), as a query ordered by quote DESC returns them.

UserCodes == {"GUGU007", "GUGU008"}
Quotes == {900, 1200, 1500}
AuctionIds == {1, 2}
HistoryRows == [quote : Quotes, auction_id : AuctionIds]
Histories ==
    {h \in UNION {[1..k -> HistoryRows] : k \in 0..MaxHist} :
        \A i \in 1..(Len(h) - 1) : h[i].quote >= h[i + 1].quote}
\* one user code with a long history, one with a short one
Stores == {store \in [UserCodes -> Histories] : Len(store["GUGU008"]) <= 1}

\* a row of the ledger as the scraper delivers it; "" stands for a missing
\* user code; the rows of one ledger are bids on one lot of one auction
RawBids(auction) == [usercode : UserCodes \cup {""}, type : {"online", "offline"}, auctionid : {auction}]

\* the methods class PigeonDao and its base BaseDB define
PigeonDaoMethods ==
    {"ensure_table_pigeon_info", "_mysql_index_exists", "insert_pigeon_info",
     "get_pigeon_info_by_id", "insert_or_update_pigeon_info_batch",
     "_exec_on_cursor_with_retry", "_exec_with_retry", "format_datetime",
     "_row_from_model", "query_bid_statistics_and_deals",
     "_initialize_connection_pool", "_connect_direct", "get_connection",
     "get_cached_connection", "close_connection", "connection_ctx"}

\* BidRecord.from_list: the dataclass fields with their defaults; count is
\* the number of rows of the batch with the same user code
FromList(raw_bids) ==
    [i \in DOMAIN raw_bids |->
        [user_code |-> raw_bids[i].usercode,
         type |-> raw_bids[i].type,
         auction_id |-> raw_bids[i].auctionid,
         count |-> Cardinality({j \in DOMAIN raw_bids : raw_bids[j].usercode = raw_bids[i].usercode}),
         results |-> <<>>,
         auction_bid_count |-> 0,
         auction_total_price |-> 0,
         auction_highest_price |-> 0,
         auction_second_highest_price |-> 0]]

\* _extract_unique_online_user_codes
ExtractUniqueOnlineUserCodes(records) ==
    {records[i].user_code : i \in {j \in DOMAIN records :
        records[j].type = "online" /\ records[j].user_code # ""}}

\* _query_history_in_background: self.dao.query_user_deal_records(...) in a
\* thread; any exception, the AttributeError of a method the dao does not
\* have included, is logged and {} returned
QueryHistoryInBackground(store, user_codes) ==
    IF "query_user_deal_records" \in PigeonDaoMethods
      THEN [uc \in user_codes |-> store[uc]]
      ELSE [uc \in {} |-> <<>>]

\* _inject_results_into_records: results = {uc: result_map.get(uc, [])}
InjectResultsIntoRecords(records, result_map) ==
    [i \in DOMAIN records |->
        [records[i] EXCEPT !.results =
            IF records[i].user_code \in DOMAIN result_map
              THEN result_map[records[i].user_code] ELSE <<>>]]

\* build_bid_records_with_history up to the injection; the ranking that
\* follows reorders and annotates the rows of each results list
BuildBidRecordsWithHistory(store, raw_bids) ==
    LET records == FromList(raw_bids)
        user_codes == ExtractUniqueOnlineUserCodes(records)
    IN  IF user_codes = {} THEN records
        ELSE InjectResultsIntoRecords(records, QueryHistoryInBackground(store, user_codes))

EnrichInit ==
    /\ \E store \in Stores, auction \in AuctionIds :
       \E raw_bids \in UNION {[1..k -> RawBids(auction)] : k \in 0..MaxBids} :
         callArg = [store |-> store, raw_bids |-> raw_bids]
    /\ callRet = NotCalled
    /\ callPc = "new"

EnrichCall ==
    /\ callPc = "new"
    /\ callRet' = BuildBidRecordsWithHistory(callArg.store, callArg.raw_bids)
    /\ callPc' = "returned"
    /\ UNCHANGED callArg

\* ========================================================================
\* Ranking and highlighting (sniffer/pigeon_pids_query/pigeon_bis_query.py)
\* ========================================================================
\* A string is the sequence of its characters; None and "" are both <<>>.
\* Positions are counted from 0 as in the code: s[i] there is s[i + 1] here.

Blank == " "

\* str.lower() on the characters in use
Lower(c) == IF c = "L" THEN "l" ELSE IF c = "M" THEN "m" ELSE c

\* str.strip()
StripName(s) ==
    LET inked == {i \in DOMAIN s : s[i] # Blank}
    IN  IF inked = {} THEN <<>>
        ELSE SubSeq(s, CHOOSE i \in inked : \A k \in inked : i <= k,
                       CHOOSE i \in inked : \A k \in inked : k <= i)

\* _normalize_name: " ".join(str(s).strip().split()).lower() -- of every run
\* of blanks inside the stripped string the first blank stays
NormalizeName(s) ==
    LET t == StripName(s)
        kept == {i \in DOMAIN t : t[i] # Blank \/ t[i - 1] # Blank}
        pos == [k \in 1..Cardinality(kept) |->
                   CHOOSE i \in kept : Cardinality({x \in kept : x <= i}) = k]
    IN  [k \in 1..Cardinality(kept) |-> Lower(t[pos[k]])]

\* the length of the common run of a[i:ahi] and b[j:bhi]
RECURSIVE RunLen(_, _, _, _, _, _)
RunLen(a, i, ahi, b, j, bhi) ==
    IF i < ahi /\ j < bhi /\ a[i + 1] = b[j + 1]
      THEN 1 + RunLen(a, i + 1, ahi, b, j + 1, bhi) ELSE 0

\* SequenceMatcher.find_longest_match without junk: the longest block, of
\* those the one starting earliest in a, of those the earliest in b
FindLongestMatch(a, alo, ahi, b, blo, bhi) ==
    LET starts == (alo..(ahi - 1)) \X (blo..(bhi - 1))
        size(p) == RunLen(a, p[1], ahi, b, p[2], bhi)
        best == {p \in starts : size(p) > 0 /\ \A q \in starts : size(q) <= size(p)}
    IN  IF best = {} THEN <<alo, blo, 0>>
        ELSE LET p == CHOOSE p \in best : \A q \in best :
                          p[1] < q[1] \/ (p[1] = q[1] /\ p[2] <= q[2])
             IN  <<p[1], p[2], size(p)>>

\* the total size of SequenceMatcher.get_matching_blocks
RECURSIVE MatchingSize(_, _, _, _, _, _)
MatchingSize(a, alo, ahi, b, blo, bhi) ==
    LET m == FindLongestMatch(a, alo, ahi, b, blo, bhi)
    IN  IF m[3] = 0 THEN 0
        ELSE m[3] + MatchingSize(a, alo, m[1], b, blo, m[2])
                  + MatchingSize(a, m[1] + m[3], ahi, b, m[2] + m[3], bhi)

\* _similarity: SequenceMatcher(None, a, b).ratio() = 2.0 * matches / length,
\* kept as the fraction <<numerator, denominator>>; 0.0 is <<0, 1>>
Similarity(a, b) ==
    IF a = <<>> \/ b = <<>> THEN <<0, 1>>
    ELSE <<2 * MatchingSize(a, 0, Len(a), b, 0, Len(b)), Len(a) + Len(b)>>

\* x >= y for fractions with positive denominators
FracGeq(x, y) == x[1] * y[2] >= y[1] * x[2]

\* fuzzy_threshold: 0.8
fuzzy_threshold == <<4, 5>>

\* _lcs_highlight_spans(a, b)
LcsIndexes(a, b) ==
    LET n == Len(a)
        m == Len(b)
        dp[i \in 0..n, j \in 0..m] ==
            IF i = n \/ j = m THEN 0
            ELSE IF a[i + 1] = b[j + 1] THEN dp[i + 1, j + 1] + 1
            ELSE IF dp[i + 1, j] >= dp[i, j + 1] THEN dp[i + 1, j] ELSE dp[i, j + 1]
        walk[i \in 0..n, j \in 0..m] ==
            IF i = n \/ j = m THEN <<>>
            ELSE IF a[i + 1] = b[j + 1] THEN <<i>> \o walk[i + 1, j + 1]
            ELSE IF dp[i + 1, j] >= dp[i, j + 1] THEN walk[i + 1, j]
            ELSE walk[i, j + 1]
    IN  walk[0, 0]

\* the loop that merges consecutive indexes into half-open spans
RECURSIVE MergeSpans(_, _, _, _)
MergeSpans(spans, start, prev, rest) ==
    IF rest = <<>> THEN Append(spans, <<start, prev + 1>>)
    ELSE IF rest[1] = prev + 1 THEN MergeSpans(spans, start, rest[1], Tail(rest))
    ELSE MergeSpans(Append(spans, <<start, prev + 1>>), rest[1], rest[1], Tail(rest))

LcsHighlightSpans_Unmerged(a, b) ==
    LET idxs == LcsIndexes(a, b)
    IN  [k \in DOMAIN idxs |-> <<idxs[k], idxs[k] + 1>>]

LcsHighlightSpans(a, b) ==
    LET idxs == LcsIndexes(a, b)
    IN  IF idxs = <<>> THEN <<>> ELSE MergeSpans(<<>>, idxs[1], idxs[1], Tail(idxs))

\* the rows of one results list annotated as the second loop of
\* _apply_custom_sort_rules_with_fuzzy leaves them
Annotated(rows, compare_name) ==
    LET norm_nick == NormalizeName(compare_name)
        same(i) == {k \in DOMAIN rows : StripName(rows[k].matcher_name) = StripName(rows[i].matcher_name)}
        total[S \in SUBSET DOMAIN rows] ==
            IF S = {} THEN 0
            ELSE LET k == CHOOSE k \in S : TRUE IN rows[k].quote + total[S \ {k}]
    IN  [i \in DOMAIN rows |->
            LET mn_raw == StripName(rows[i].matcher_name)
                mn_norm == NormalizeName(mn_raw)
                score == IF mn_norm # <<>> /\ norm_nick # <<>>
                           THEN Similarity(mn_norm, norm_nick) ELSE <<0, 1>>
            IN  [matcher_name |-> rows[i].matcher_name,
                 quote |-> rows[i].quote,
                 _match_score |-> score,
                 _match_exact |-> (mn_norm = norm_nick /\ mn_norm # <<>>),
                 _match_hit |-> FracGeq(score, fuzzy_threshold),
                 _match_spans |-> IF mn_raw # <<>> /\ compare_name # <<>>
                                    THEN LcsHighlightSpans(mn_raw, compare_name) ELSE <<>>,
                 _agg_count |-> Cardinality(same(i)),
                 _agg_total |-> total[same(i)]]]

\* sort_key(r1) <= sort_key(r2): the tuples (-exact, -hit, -score, -count,
\* -total) compared as Python compares tuples
SortKeyLeq_NoTotal(r1, r2) ==
    LET e1 == IF r1._match_exact THEN 1 ELSE 0
        e2 == IF r2._match_exact THEN 1 ELSE 0
        h1 == IF r1._match_hit THEN 1 ELSE 0
        h2 == IF r2._match_hit THEN 1 ELSE 0
    IN  IF e1 # e2 THEN e1 > e2
        ELSE IF h1 # h2 THEN h1 > h2
        ELSE IF r1._match_score[1] * r2._match_score[2] # r2._match_score[1] * r1._match_score[2]
          THEN r1._match_score[1] * r2._match_score[2] > r2._match_score[1] * r1._match_score[2]
        ELSE r1._agg_count >= r2._agg_count

SortKeyLeq(r1, r2) ==
    LET e1 == IF r1._match_exact THEN 1 ELSE 0
        e2 == IF r2._match_exact THEN 1 ELSE 0
        h1 == IF r1._match_hit THEN 1 ELSE 0
        h2 == IF r2._match_hit THEN 1 ELSE 0
    IN  IF e1 # e2 THEN e1 > e2
        ELSE IF h1 # h2 THEN h1 > h2
        ELSE IF r1._match_score[1] * r2._match_score[2] # r2._match_score[1] * r1._match_score[2]
          THEN r1._match_score[1] * r2._match_score[2] > r2._match_score[1] * r1._match_score[2]
        ELSE IF r1._agg_count # r2._agg_count THEN r1._agg_count > r2._agg_count
        ELSE r1._agg_total >= r2._agg_total

\* rows.sort(key=sort_key), which is stable: the last row goes behind the
\* rows of the sorted rest whose key is not greater
RECURSIVE SortRows(_)
SortRows(rows) ==
    IF Len(rows) <= 1 THEN rows
    ELSE LET init == SortRows(SubSeq(rows, 1, Len(rows) - 1))
             x == rows[Len(rows)]
             k == Cardinality({i \in 1..Len(init) : SortKeyLeq(init[i], x)})
         IN  SubSeq(init, 1, k) \o <<x>> \o SubSeq(init, k + 1, Len(init))

\* _apply_custom_sort_rules_with_fuzzy on the results list of one record
ApplyCustomSortRulesWithFuzzy(rows, compare_name) ==
    IF rows = <<>> THEN rows ELSE SortRows(Annotated(rows, compare_name))

\* the matcher names and consignor names the ranking is run on
MatcherNames ==
    {<<>>, <<"L", "i">>, <<"l", "i">>, <<"l", " ", "i">>, <<" ", "l", "a">>}
CompareNames == {<<>>, <<"L", "i">>, <<"l", " ", " ", "i">>}
RankRows == [matcher_name : MatcherNames, quote : {900, 1200}]

RankInit ==
    /\ \E rows \in UNION {[1..k -> RankRows] : k \in 0..MaxRows}, compare_name \in CompareNames,
          shared \in BOOLEAN :
         callArg = [rows |-> rows, compare_name |-> compare_name, shared |-> shared]
    /\ callRet = NotCalled
    /\ callPc = "new"

\* _apply_custom_sort_rules_with_fuzzy(records, compare_name=...): the list is
\* the results of one record, or of two records with the same user code,
\* which hold the same list object, so that it is annotated and sorted twice
RankCall ==
    /\ callPc = "new"
    /\ callRet' = LET once == ApplyCustomSortRulesWithFuzzy(callArg.rows, callArg.compare_name)
                  IN  IF callArg.shared
                        THEN ApplyCustomSortRulesWithFuzzy(once, callArg.compare_name)
                        ELSE once
    /\ callPc' = "returned"
    /\ UNCHANGED callArg

\* the strings the highlighting is run on
Letters == {"a", "b", "c"}
Strings == UNION {[1..k -> Letters] : k \in 0..MaxStr}

LcsInit ==
    /\ \E a \in Strings, b \in Strings : callArg = [a |-> a, b |-> b]
    /\ callRet = NotCalled
    /\ callPc = "new"

LcsCall ==
    /\ callPc = "new"
    /\ callRet' = LcsHighlightSpans(callArg.a, callArg.b)
    /\ callPc' = "returned"
    /\ UNCHANGED callArg

\* ========================================================================
\* Deal statistics (dao/pigeon_dao.py: query_bid_statistics_and_deals)
\* ========================================================================
\* The rows the cursor returns are (bid_user_code, quote, auction_id), the
\* quote a number.

FetchedRows == [bid_user_code : UserCodes, quote : Quotes, auction_id : AuctionIds]

\* the entry statistics.setdefault creates
NewUserData ==
    [deal_count |-> 0, total_price |-> 0, highest_price |-> 0, second_highest_price |-> 0,
     deal_count_all |-> 0, total_price_all |-> 0, highest_price_all |-> 0,
     second_highest_price_all |-> 0]

\* the two comparisons that keep the highest and the second-highest price
TopTwo_NoDemote(highest, second, q) ==
    IF q > highest THEN <<q, second>>
    ELSE IF q > second THEN <<highest, q>>
    ELSE <<highest, second>>

TopTwo(highest, second, q) ==
    IF q > highest THEN <<q, highest>>
    ELSE IF q > second THEN <<highest, q>>
    ELSE <<highest, second>>

\* one round of the loop over cursor.fetchall()
UpdateUserData(user_data, row, auction_id) ==
    LET all == TopTwo(user_data.highest_price_all, user_data.second_highest_price_all, row.quote)
        cur == TopTwo(user_data.highest_price, user_data.second_highest_price, row.quote)
        d == [user_data EXCEPT !.deal_count_all = @ + 1,
                               !.total_price_all = @ + row.quote,
                               !.highest_price_all = all[1],
                               !.second_highest_price_all = all[2]]
    IN  IF row.auction_id = auction_id
          THEN [d EXCEPT !.deal_count = @ + 1,
                         !.total_price = @ + row.quote,
                         !.highest_price = cur[1],
                         !.second_highest_price = cur[2]]
          ELSE d

\* the loop: statistics after the rows, in the order they are fetched
RECURSIVE StatisticsLoop(_, _, _)
StatisticsLoop(statistics, rows, auction_id) ==
    IF rows = <<>> THEN statistics
    ELSE LET uc == rows[1].bid_user_code
             user_data == IF uc \in DOMAIN statistics THEN statistics[uc] ELSE NewUserData
             next == UpdateUserData(user_data, rows[1], auction_id)
         IN  StatisticsLoop([u \in DOMAIN statistics \cup {uc} |->
                                IF u = uc THEN next ELSE statistics[u]],
                            Tail(rows), auction_id)

StatsInit ==
    /\ \E rows \in UNION {[1..k -> FetchedRows] : k \in 0..MaxHist}, auction_id \in AuctionIds :
         callArg = [rows |-> rows, auction_id |-> auction_id]
    /\ callRet = NotCalled
    /\ callPc = "new"

\* query_bid_statistics_and_deals, from the rows fetched to the statistics
StatsCall ==
    /\ callPc = "new"
    /\ callRet' = StatisticsLoop([u \in {} |-> NewUserData], callArg.rows, callArg.auction_id)
    /\ callPc' = "returned"
    /\ UNCHANGED callArg

\* ========================================================================
\* The HTTP crawler base (commons/base_crawler.py)
\* ========================================================================
\* Time is counted in ticks of the monotonic clock.  One thread uses the
\* scraper, so that one call is in progress at a time.

NoCall == [wrapper |-> "none"]

\* __init__: the delays, exchanged when max_delay < min_delay
Delays ==
    {<<IF hi < lo THEN hi ELSE lo, IF hi < lo THEN lo ELSE hi>> : lo \in 0..MaxDelay, hi \in 0..MaxDelay}

CrInit ==
    /\ \E d \in Delays : crMin = d[1] /\ crMax = d[2]
    /\ crClock \in 0..1
    /\ crLast = 0
    /\ crPc = "idle"
    /\ crCall = NoCall
    /\ crWait = 0
    /\ crWake = 0
    /\ crStart = 0
    /\ crReqs = 0
    /\ crSessions = 0
    /\ crResult = "nothing"
    /\ crRecreate \in BOOLEAN
    /\ crOutcome = "none"

CrParked ==
    /\ crMin = 0
    /\ crMax = 0
    /\ crClock = 0
    /\ crLast = 0
    /\ crPc = "idle"
    /\ crCall = NoCall
    /\ crWait = 0
    /\ crWake = 0
    /\ crStart = 0
    /\ crReqs = 0
    /\ crSessions = 0
    /\ crResult = "nothing"
    /\ crRecreate = TRUE
    /\ crOutcome = "none"

\* max(0.0, self.min_delay - elapsed)
WaitMin_None(min_delay, elapsed) == 0

WaitMin(min_delay, elapsed) ==
    IF min_delay - elapsed > 0 THEN min_delay - elapsed ELSE 0

\* random.uniform(0.0, max_delay - min_delay), 0.0 when max_delay <= min_delay
Jitters == IF crMax <= crMin THEN {0} ELSE 0..(crMax - crMin)

\* _request up to the end of _throttle's computation: sleep_s is
\* fixed; with sleep_s = 0 the request starts at once
Throttle(call) ==
    /\ crPc = "idle"
    /\ crReqs < MaxReqs
    /\ crCall' = call
    /\ crResult' = "nothing"
    /\ \E jitter \in Jitters :
         LET sleep_s == WaitMin(crMin, crClock - crLast) + jitter
         IN  /\ crWait' = sleep_s
             /\ crWake' = crClock + sleep_s
             /\ IF sleep_s > 0
                  THEN crPc' = "sleeping" /\ UNCHANGED crStart
                  ELSE crPc' = "requesting" /\ crStart' = crClock
    /\ UNCHANGED <<crMin, crMax, crClock, crLast, crReqs, crSessions, crRecreate, crOutcome>>

\* fetch(url, params, headers, allow_status)
Fetch(allow) ==
    Throttle([wrapper |-> "fetch", method |-> "GET", data |-> FALSE, json |-> FALSE, allow |-> allow])

\* fetch_post(url, data, json, headers, allow_status): ValueError when both
\* data and json are given
FetchPost(data, json, allow) ==
    IF data /\ json
      THEN /\ crPc = "idle"
           /\ crReqs < MaxReqs
           /\ crCall' = [wrapper |-> "fetch_post", method |-> "POST", data |-> data, json |-> json, allow |-> allow]
           /\ crResult' = "ValueError"
           /\ UNCHANGED <<crMin, crMax, crClock, crLast, crPc, crWait, crWake, crStart, crReqs, crSessions,
                          crRecreate, crOutcome>>
      ELSE Throttle([wrapper |-> "fetch_post", method |-> "POST", data |-> data, json |-> json, allow |-> allow])

\* the clock moves
CrTick ==
    /\ crClock < MaxClock
    /\ crClock' = crClock + 1
    /\ UNCHANGED <<crMin, crMax, crLast, crPc, crCall, crWait, crWake, crStart, crReqs, crSessions, crResult,
                   crRecreate, crOutcome>>

\* time.sleep(sleep_s) returns, not before sleep_s has passed; the headers
\* and the proxy are picked and session.request is entered
Wake ==
    /\ crPc = "sleeping"
    /\ crClock >= crWake
    /\ crPc' = "requesting"
    /\ crStart' = crClock
    /\ UNCHANGED <<crMin, crMax, crClock, crLast, crCall, crWait, crWake, crReqs, crSessions, crResult,
                   crRecreate, crOutcome>>

\* the statuses a response can carry
Statuses == {200, 404, 429, 503}
\* Response.ok: raise_for_status() would not raise
Ok(status) == status < 400
\* the statuses allow_status holds when it is given
Allowed == {404}

\* what _request returns: the response, or None from the except clause that
\* catches requests.RequestException (HTTPError of raise_for_status included)
RequestResult_Reraise(ok) == IF ok THEN "response" ELSE "RequestException"

RequestResult(ok) == IF ok THEN "response" ELSE "absent"

\* the _recreate_session calls of a request that ended with `outcome`: one
\* before raise_for_status() on 403/429/503, one in the except clause, both
\* under recreate_session_on_block
Rebuilds_OnStatusOnly(recreate, outcome) ==
    IF recreate /\ outcome = "blocked" THEN 1 ELSE 0

Rebuilds(recreate, outcome) ==
    IF ~recreate \/ outcome = "ok" THEN 0
    ELSE IF outcome = "blocked" THEN 2
    ELSE 1

\* what _request does at its end, in the finally clause, and the wrapper's
\* return
RequestOver(result, outcome) ==
    /\ crResult' = result
    /\ crOutcome' = outcome
    /\ crSessions' = Rebuilds(crRecreate, outcome)
    /\ crLast' = crClock
    /\ crReqs' = crReqs + 1
    /\ crPc' = "idle"
    /\ crWait' = 0
    /\ crWake' = 0
    /\ crStart' = 0
    /\ UNCHANGED <<crMin, crMax, crClock, crCall, crRecreate>>

\* session.request returns a response.  A status that is neither ok nor
\* allowed is logged ("blocked": 403/429/503, "status": any other), and
\* raise_for_status() raises HTTPError, which the except clause turns into
\* None.  hook_err: on_response raises, which is logged.
ResponseArrives(status, hook_err) ==
    /\ crPc = "requesting"
    /\ LET ok == Ok(status) \/ (crCall.allow /\ status \in Allowed)
       IN  IF ok THEN RequestOver(RequestResult(TRUE), "ok")
           ELSE RequestOver(RequestResult(FALSE),
                            IF status \in {403, 429, 503} THEN "blocked" ELSE "status")

\* session.request raises a RequestException: on_error, None is returned
RequestFails ==
    /\ crPc = "requesting"
    /\ RequestOver(RequestResult(FALSE), "error")

\* ======================================================================
\* Auction list pagination (crawlers/gongpeng_crawler.py)
\* ======================================================================

MaxPageSize == 2      \* largest pagesize of the parameter template
MaxFullPages == 2     \* most full pages the server holds before a short one

\* param_template.get("pageno", 1) of a template that does not set another page
start_page == 1

\* a row of a page: one that GongpengInfo.from_dict accepts, or one that it rejects
RowKinds == {"good", "bad"}

PageRows == UNION {[1..n -> RowKinds] : n \in 0..MaxPageSize}

\* what fetch_page can come back with: a top-level list, a mapping holding the list under
\* data / list / records, a mapping without any list, or {} after a failed request or a
\* body that is not JSON
PageJsons ==
    [kind : {"list", "dict"}, rows : PageRows] \cup [kind : {"other", "failed"}, rows : {<<>>}]

\* _extract_list
ExtractList(page_json) == IF page_json.kind \in {"list", "dict"} THEN page_json.rows ELSE <<>>

RECURSIVE FromRows(_, _, _)
\* GongpengInfo.from_list, not strict: a row that fails is skipped, the others keep their order
FromRows(page_no, rows, i) ==
    IF i > Len(rows) THEN <<>>
    ELSE (IF rows[i] = "good" THEN <<[page |-> page_no, row |-> i]>> ELSE <<>>)
             \o FromRows(page_no, rows, i + 1)

\* _parse_list
ParseList(page_no, data_list) == FromRows(page_no, data_list, 1)

LastPage_AtPagesize(data_list, req_pagesize) == data_list = <<>> \/ Len(data_list) <= req_pagesize

\* the stop conditions of the loop: an empty page, or fewer rows than the requested pagesize
LastPage(data_list, req_pagesize) == data_list = <<>> \/ Len(data_list) < req_pagesize

CaInit ==
    /\ caPc = "idle"
    /\ caPageSize \in 1..MaxPageSize
    /\ caPageNo = 0
    /\ caItems = <<>>
    /\ caResp = <<>>
    /\ caFull \in 0..MaxFullPages

CaParked ==
    /\ caPc = "idle"
    /\ caPageSize = 1
    /\ caPageNo = 0
    /\ caItems = <<>>
    /\ caResp = <<>>
    /\ caFull = 0

\* crawl_all up to the while loop
CrawlAll ==
    /\ caPc = "idle"
    /\ caPc' = "crawling"
    /\ caPageNo' = start_page
    /\ caItems' = <<>>
    /\ UNCHANGED <<caPageSize, caResp, caFull>>

\* one turn of the while loop: fetch_page(page_no), _extract_list, _parse_list, the two breaks
FetchPage(page_json) ==
    LET data_list == ExtractList(page_json)
        full == Len(data_list) >= caPageSize
    IN /\ caPc = "crawling"
       /\ full => caFull > 0
       /\ caResp' = Append(caResp, [page |-> caPageNo, rows |-> data_list])
       /\ caFull' = IF full THEN caFull - 1 ELSE caFull
       /\ caItems' = IF data_list = <<>> THEN caItems ELSE caItems \o ParseList(caPageNo, data_list)
       /\ IF LastPage(data_list, caPageSize)
            THEN caPc' = "returned" /\ caPageNo' = caPageNo
            ELSE caPc' = "crawling" /\ caPageNo' = caPageNo + 1
       /\ UNCHANGED caPageSize

\* ======================================================================
\* Fan-out over worker scrapers (crawlers/sections_clawler.py, crawlers/pigeon_crawler.py)
\* ======================================================================

FanWorkers == 2       \* MAX_WORKERS: worker instances, and threads of the executor
MaxTasks == 3         \* most ids handed to one fetchall call
MaxFanClock == 4      \* ticks of the clock
FanMinDelay == 1      \* min_delay of a worker instance, in ticks
FanJitter == 1        \* max_delay - min_delay of a worker instance, in ticks

NoTask == 0 - 1

FanThreads == 1..FanWorkers

FanInstances == 0..(FanWorkers - 1)

\* wid = i % MAX_WORKERS

Wid(i) == i % FanWorkers

\* the worker instance thread t is inside, if any
UsedBy(t) == Wid(fanThread[t])

FanInit ==
    /\ fanPc = "idle"
    /\ fanTasks = 0
    /\ fanNext = 0
    /\ fanThread = [t \in FanThreads |-> NoTask]
    /\ fanPhase = [t \in FanThreads |-> "idle"]
    /\ fanWake = [t \in FanThreads |-> 0]
    /\ fanLast = [w \in FanInstances |-> 0]
    /\ fanClock = FanMinDelay
    /\ fanDone = 0
    /\ fanSpaced = TRUE

FanParked == FanInit

\* fetchall_*: shuffle, create the worker instances, submit every task
FetchAll(n) ==
    /\ fanPc = "idle"
    /\ fanTasks' = n
    /\ fanPc' = IF n = 0 THEN "done" ELSE "running"
    /\ UNCHANGED <<fanNext, fanThread, fanPhase, fanWake, fanLast, fanClock, fanDone, fanSpaced>>

\* a free thread of the executor takes the oldest waiting task and enters
\* workers[wid].fetch_*: _throttle reads the clock and _last_request_ts and goes to sleep
TakeTask(t, jitter) ==
    LET w == Wid(fanNext)
        elapsed == fanClock - fanLast[w]
        wait_min == IF FanMinDelay - elapsed > 0 THEN FanMinDelay - elapsed ELSE 0
    IN /\ fanPc = "running"
       /\ fanThread[t] = NoTask
       /\ fanNext < fanTasks
       /\ fanThread' = [fanThread EXCEPT ![t] = fanNext]
       /\ fanNext' = fanNext + 1
       /\ fanPhase' = [fanPhase EXCEPT ![t] = "sleep"]
       /\ fanWake' = [fanWake EXCEPT ![t] = fanClock + wait_min + jitter]
       /\ UNCHANGED <<fanPc, fanTasks, fanLast, fanClock, fanDone, fanSpaced>>

\* time.sleep is over: session.request goes out
Send(t) ==
    /\ fanPhase[t] = "sleep"
    /\ fanClock >= fanWake[t]
    /\ fanPhase' = [fanPhase EXCEPT ![t] = "request"]
    /\ fanSpaced' = (/\ fanSpaced
                     /\ fanClock - fanLast[UsedBy(t)] >= FanMinDelay
                     /\ \A u \in FanThreads \ {t} : ~(fanPhase[u] = "request" /\ UsedBy(u) = UsedBy(t)))
    /\ UNCHANGED <<fanPc, fanTasks, fanNext, fanThread, fanWake, fanLast, fanClock, fanDone>>

\* the request is over (answered or failed): the finally clause stamps _last_request_ts,
\* the task returns its list and the thread is free again
Finish(t) ==
    /\ fanPhase[t] = "request"
    /\ fanLast' = [fanLast EXCEPT ![UsedBy(t)] = fanClock]
    /\ fanPhase' = [fanPhase EXCEPT ![t] = "idle"]
    /\ fanThread' = [fanThread EXCEPT ![t] = NoTask]
    /\ fanWake' = [fanWake EXCEPT ![t] = 0]
    /\ fanDone' = fanDone + 1
    /\ UNCHANGED <<fanPc, fanTasks, fanNext, fanClock, fanSpaced>>

FanTick ==
    /\ fanPc = "running"
    /\ fanClock < MaxFanClock
    /\ fanClock' = fanClock + 1
    /\ UNCHANGED <<fanPc, fanTasks, fanNext, fanThread, fanPhase, fanWake, fanLast, fanDone, fanSpaced>>

\* every future is complete: the executor and the worker instances are closed
FetchAllReturns ==
    /\ fanPc = "running"
    /\ fanDone = fanTasks
    /\ fanPc' = "done"
    /\ UNCHANGED <<fanTasks, fanNext, fanThread, fanPhase, fanWake, fanLast, fanClock, fanDone, fanSpaced>>

\* ======================================================================
\* Pigeon rows (mydataclass/pigeon.py, commons/base_dataclasses.py, commons/normalizers.py)
\* ======================================================================

MsThreshold == 1000   \* a timestamp from here on is in milliseconds (1e12 in the code, scaled)

\* a value of a raw row: the key is absent (or null), a blank string, a string that is no
\* number, or a number (given as such or as a numeric string)
Absent == [kind |-> "absent", val |-> 0]

RawValue(nums) ==
    {Absent, [kind |-> "blank", val |-> 0], [kind |-> "junk", val |-> 0]} \cup [kind : {"num"}, val : nums]

RawTimes == RawValue({1, 2, 1000, 2000})

RawPrices == RawValue({0 - 5, 0, 2000})

\* margin ratios in tenths: 10 stands for 1.0
RawRatios == RawValue({0 - 1, 1, 10, 20})

RawPigeons ==
    [required : BOOLEAN, starttime : RawTimes, endtime : RawTimes,
     startprice : RawPrices, marginratio : RawRatios]

\* ts_to_seconds
TsToSeconds(x) ==
    IF x.kind # "num" THEN Absent
    ELSE [kind |-> "num", val |-> IF x.val >= MsThreshold THEN x.val \div 1000 ELSE x.val]

\* to_float_or_none
ToFloatOrNone(x) == IF x.kind # "num" THEN Absent ELSE x

\* FIELD_MAPPING and CONVERTERS of PigeonInfo applied to a raw row
Combined(data) ==
    [start_time |-> TsToSeconds(data.starttime),
     end_time |-> TsToSeconds(data.endtime),
     start_price |-> ToFloatOrNone(data.startprice),
     margin_ratio |-> ToFloatOrNone(data.marginratio)]

\* row.get(key)
Get(row, key) == IF key \in DOMAIN row THEN row[key] ELSE Absent

\* ensure_end_ge_start with its default keys: TRUE when it raises ValueError
EnsureEndGeStart(row) ==
    LET st == Get(row, "starttime")
        et == Get(row, "endtime")
    IN st.kind = "num" /\ et.kind = "num" /\ et.val < st.val

\* PigeonInfo.VALIDATORS: the class body assigns none (its list is commented out), so
\* the empty list of BaseDataClass applies
VALIDATORS == {}

\* whether the validator named v raises on the row
Raises(v, row) ==
    CASE v = "ensure_end_ge_start" -> EnsureEndGeStart(row)
      [] OTHER -> FALSE

\* what from_dict leaves behind when it raises: no object
NoPigeon == [start_time |-> Absent, end_time |-> Absent, start_price |-> Absent, margin_ratio |-> Absent]

\* BaseDataClass.from_dict for PigeonInfo: map, convert, validate, construct
FromDict(data) ==
    LET combined == Combined(data)
    IN IF \E v \in VALIDATORS : Raises(v, combined) THEN [exc |-> "ValueError", obj |-> NoPigeon]
       ELSE IF ~data.required THEN [exc |-> "TypeError", obj |-> NoPigeon]
       ELSE [exc |-> "none", obj |-> combined]

PigeonInit ==
    /\ callArg \in RawPigeons
    /\ callRet = NotCalled
    /\ callPc = "new"

\* PigeonInfo.from_dict(data)
PigeonCall ==
    /\ callPc = "new"
    /\ callRet' = FromDict(callArg)
    /\ callPc' = "returned"
    /\ UNCHANGED callArg

\* ======================================================================
\* Deal statistics, the chunked query (dao/pigeon_dao.py: query_bid_statistics_and_deals)
\* ======================================================================

MaxCodes == 2         \* user codes handed to one query
MaxChunk == 2         \* largest chunk_size tried

\* user codes as a caller may pass them: plain, padded with blanks, or blank altogether
RawCodes == {"GUGU007", " GUGU007 ", "GUGU008", "  "}

\* str.strip
StripCode(uc) ==
    CASE uc = " GUGU007 " -> "GUGU007"
      [] uc = "  " -> ""
      [] OTHER -> uc

\* [uc.strip() for uc in user_codes if uc and uc.strip()]
CleanCodes(user_codes) ==
    LET kept == SelectSeq(user_codes, LAMBDA uc : StripCode(uc) # "")
    IN [i \in DOMAIN kept |-> StripCode(kept[i])]

\* the user codes in the order of ORDER BY bid_user_code
CodeOrder == <<"GUGU007", "GUGU008">>

RECURSIVE SelectRows(_, _, _)
\* SELECT ... WHERE bid_user_code IN (chunk) ORDER BY bid_user_code, quote DESC:
\* every stored row of a listed code once, however often the code is listed
SelectRows(store, chunk, k) ==
    IF k > Len(CodeOrder) THEN <<>>
    ELSE (IF CodeOrder[k] \in Range(chunk)
            THEN [i \in DOMAIN store[CodeOrder[k]] |->
                     [bid_user_code |-> CodeOrder[k],
                      quote |-> store[CodeOrder[k]][i].quote,
                      auction_id |-> store[CodeOrder[k]][i].auction_id]]
            ELSE <<>>) \o SelectRows(store, chunk, k + 1)

RECURSIVE DealsLoop(_, _)
\* completed_deals.setdefault(uc, []).append(...) over the fetched rows
DealsLoop(completed_deals, rows) ==
    IF rows = <<>> THEN completed_deals
    ELSE LET uc == rows[1].bid_user_code
             old == IF uc \in DOMAIN completed_deals THEN completed_deals[uc] ELSE <<>>
             deal == [quote |-> rows[1].quote, auction_id |-> rows[1].auction_id]
         IN DealsLoop([u \in DOMAIN completed_deals \cup {uc} |->
                          IF u = uc THEN Append(old, deal) ELSE completed_deals[u]],
                      Tail(rows))

RECURSIVE ChunkLoop(_, _, _, _, _)
\* for i in range(0, len(user_codes), chunk_size): one SELECT per chunk, its rows added
\* to what the earlier chunks left
ChunkLoop(acc, store, user_codes, auction_id, chunk_size) ==
    IF user_codes = <<>> THEN acc
    ELSE LET n == IF Len(user_codes) < chunk_size THEN Len(user_codes) ELSE chunk_size
             rows == SelectRows(store, SubSeq(user_codes, 1, n), 1)
         IN ChunkLoop([statistics |-> StatisticsLoop(acc.statistics, rows, auction_id),
                       completed_deals |-> DealsLoop(acc.completed_deals, rows)],
                      store, SubSeq(user_codes, n + 1, Len(user_codes)), auction_id, chunk_size)

NoResults == [statistics |-> [u \in {} |-> NewUserData], completed_deals |-> [u \in {} |-> <<>>]]

\* query_bid_statistics_and_deals
QueryBidStatisticsAndDeals(store, user_codes, auction_id, chunk_size) ==
    ChunkLoop(NoResults, store, CleanCodes(user_codes), auction_id, chunk_size)

QueryInit ==
    /\ \E store \in Stores, user_codes \in UNION {[1..k -> RawCodes] : k \in 0..MaxCodes},
          auction_id \in AuctionIds, chunk_size \in 1..MaxChunk :
         callArg = [store |-> store, user_codes |-> user_codes, auction_id |-> auction_id,
                    chunk_size |-> chunk_size]
    /\ callRet = NotCalled
    /\ callPc = "new"

QueryCall ==
    /\ callPc = "new"
    /\ callRet' = QueryBidStatisticsAndDeals(callArg.store, callArg.user_codes, callArg.auction_id,
                                             callArg.chunk_size)
    /\ callPc' = "returned"
    /\ UNCHANGED callArg

\* ========================================================================
\* Specifications
\* ========================================================================

\* every late subsystem but the one named is at rest
LateParked(busy) ==
    /\ busy = "call" \/ CallParked
    /\ busy = "retry" \/ RetryParked
    /\ busy = "db" \/ DbParked
    /\ busy = "gp" \/ GpParked
    /\ busy = "cr" \/ CrParked
    /\ busy = "ca" \/ CaParked
    /\ busy = "fan" \/ FanParked

InitCore == BusInit /\ TrigInit /\ RouterInit /\ FlowInit /\ PoolInit /\ ServiceInit /\ SseInit

InitAll == InitCore /\ PubParked /\ CodecParked /\ LateParked("none")

\* a subsystem that is not the one being explored is at rest
TrigParked == cap = 1 /\ nworkers = 1
RouterParked == rRoutes = [i \in Routes |-> {}]
PoolParked == poolSize = 1

InitBus == InitAll /\ TrigParked /\ RouterParked /\ PoolParked

NotBus == <<trigVars, routerVars, flowVars, poolVars, moreVars>>

NextBus ==
    \/ Publish /\ UNCHANGED NotBus
    \/ \E s \in Subs : SubConnect(s) /\ UNCHANGED NotBus
    \/ \E s \in Subs : SubCheck(s) /\ UNCHANGED NotBus
    \/ \E s \in Subs : SubWake(s) /\ UNCHANGED NotBus
    \/ \E s \in Subs : SubTimeout(s) /\ UNCHANGED NotBus
    \/ \E s \in Subs : ClientDisconnect(s) /\ UNCHANGED NotBus

SpecBus == InitBus /\ [][NextBus]_vars

\* gen() runs as a task of the event loop: once it can go on (the disconnect check is
\* answered, the awaited Event is set) the loop resumes it.  Nothing obliges a client to
\* connect or the producer to publish, and a timeout only writes a keep-alive.
BusFairness ==
    \A s \in Subs : /\ WF_vars(SubCheck(s) /\ UNCHANGED NotBus)
                    /\ WF_vars(SubWake(s) /\ UNCHANGED NotBus)

SpecBusLive == InitBus /\ [][NextBus]_vars /\ BusFairness

NotSse == <<trigVars, routerVars, flowVars, poolVars, svcVars, pubVars, codecVars, lateVars>>

NextSse ==
    \/ SsePublish /\ UNCHANGED NotSse
    \/ \E s \in Timed : SseConnect(s) /\ UNCHANGED NotSse
    \/ \E s \in Timed : SseCheck(s) /\ UNCHANGED NotSse
    \/ \E s \in Timed : SseWake(s) /\ UNCHANGED NotSse
    \/ \E s \in Timed : SseTimeout(s) /\ UNCHANGED NotSse
    \/ \E s \in Timed : SseDisconnect(s) /\ UNCHANGED NotSse
    \/ SseTick /\ UNCHANGED NotSse

SpecSse == InitBus /\ [][NextSse]_vars

InitRoute == InitCore /\ TrigParked /\ RouterParked /\ PoolParked /\ PubInit /\ CodecParked /\ LateParked("none")

NotPub == <<busVars, trigVars, routerVars, flowVars, poolVars, svcVars, sseVars, codecVars, lateVars>>

NextRoute == TopicRouter /\ UNCHANGED NotPub

SpecRoute == InitRoute /\ [][NextRoute]_vars

InitRest == InitCore /\ TrigParked /\ RouterParked /\ PoolParked /\ PubParked

NotCodec == <<busVars, trigVars, routerVars, flowVars, poolVars, svcVars, sseVars, pubVars, lateVars>>

NextCodec ==
    \/ FromWsCall /\ UNCHANGED NotCodec
    \/ DecodeCall /\ UNCHANGED NotCodec

\* the codec on arbitrary buffers
InitCodec == InitRest /\ CodecInit /\ LateParked("none")

SpecCodec == InitCodec /\ [][NextCodec]_vars

\* the codec on the framings of (topic, payload, qos)
InitFraming == InitRest /\ FramingInit /\ LateParked("none")

SpecFraming == InitFraming /\ [][NextCodec]_vars

\* the codec on framings that are followed by further bytes
InitTrailing == InitRest /\ TrailingInit /\ LateParked("none")

SpecTrailing == InitTrailing /\ [][NextCodec]_vars

InitEarly == InitRest /\ CodecParked

NotCall == <<earlyVars, retryVars, dbVars, gpVars, crVars, caVars, fanVars>>

InitVarint == InitEarly /\ LateParked("call") /\ VarintInit

NextVarint == VarintCall /\ UNCHANGED NotCall

SpecVarint == InitVarint /\ [][NextVarint]_vars

NotRetry == <<earlyVars, callVars, dbVars, gpVars, crVars, caVars, fanVars>>

InitRetry == InitEarly /\ LateParked("retry") /\ RetryInit

NextRetry == \E outcome \in ExecOutcomes : ExecAttempt(outcome) /\ UNCHANGED NotRetry

SpecRetry == InitRetry /\ [][NextRetry]_vars

NotDb == <<earlyVars, callVars, retryVars, gpVars, crVars, caVars, fanVars>>

InitDb == InitEarly /\ LateParked("db") /\ DbInit

NextDb ==
    \/ UpsertCall /\ UNCHANGED NotDb
    \/ ChunkDone /\ UNCHANGED NotDb
    \/ \E err_no \in ExecOutcomes \ {"ok"} : ChunkFails(err_no) /\ UNCHANGED NotDb

SpecDb == InitDb /\ [][NextDb]_vars

NotGp == <<earlyVars, callVars, retryVars, dbVars, crVars, caVars, fanVars>>

InitGp == InitEarly /\ LateParked("gp") /\ GpInit

NextGp ==
    \/ MakeStatusAsFinished /\ UNCHANGED NotGp
    \/ BatchUpsertAndStatus /\ UNCHANGED NotGp
    \/ GpStatementFails /\ UNCHANGED NotGp

SpecGp == InitGp /\ [][NextGp]_vars

InitEnrich == InitEarly /\ LateParked("call") /\ EnrichInit

NextEnrich == EnrichCall /\ UNCHANGED NotCall

SpecEnrich == InitEnrich /\ [][NextEnrich]_vars

InitRank == InitEarly /\ LateParked("call") /\ RankInit

NextRank == RankCall /\ UNCHANGED NotCall

SpecRank == InitRank /\ [][NextRank]_vars

InitLcs == InitEarly /\ LateParked("call") /\ LcsInit

NextLcs == LcsCall /\ UNCHANGED NotCall

SpecLcs == InitLcs /\ [][NextLcs]_vars

InitStats == InitEarly /\ LateParked("call") /\ StatsInit

NextStats == StatsCall /\ UNCHANGED NotCall

SpecStats == InitStats /\ [][NextStats]_vars

NotCr == <<earlyVars, callVars, retryVars, dbVars, gpVars, caVars, fanVars>>

InitCr == InitEarly /\ LateParked("cr") /\ CrInit

NextCr ==
    \/ \E allow \in BOOLEAN : Fetch(allow) /\ UNCHANGED NotCr
    \/ \E data \in BOOLEAN, json \in BOOLEAN, allow \in BOOLEAN :
         FetchPost(data, json, allow) /\ UNCHANGED NotCr
    \/ CrTick /\ UNCHANGED NotCr
    \/ Wake /\ UNCHANGED NotCr
    \/ \E status \in Statuses, hook_err \in BOOLEAN :
         ResponseArrives(status, hook_err) /\ UNCHANGED NotCr
    \/ RequestFails /\ UNCHANGED NotCr

SpecCr == InitCr /\ [][NextCr]_vars

NotCa == <<earlyVars, callVars, retryVars, dbVars, gpVars, crVars, fanVars>>

InitCa == InitEarly /\ LateParked("ca") /\ CaInit

NextCa ==
    \/ CrawlAll /\ UNCHANGED NotCa
    \/ \E page_json \in PageJsons : FetchPage(page_json) /\ UNCHANGED NotCa

\* crawl_all runs on its caller's thread and every fetch_page call comes back (the request
\* has a timeout and a bounded number of retries), so the loop always takes its next turn
SpecCa == InitCa /\ [][NextCa]_vars /\ WF_vars(NextCa)

NotFan == <<earlyVars, callVars, retryVars, dbVars, gpVars, crVars, caVars>>

InitFan == InitEarly /\ LateParked("fan") /\ FanInit

NextFan ==
    \/ \E n \in 0..MaxTasks : FetchAll(n) /\ UNCHANGED NotFan
    \/ \E t \in FanThreads, jitter \in 0..FanJitter : TakeTask(t, jitter) /\ UNCHANGED NotFan
    \/ \E t \in FanThreads : Send(t) /\ UNCHANGED NotFan
    \/ \E t \in FanThreads : Finish(t) /\ UNCHANGED NotFan
    \/ FanTick /\ UNCHANGED NotFan
    \/ FetchAllReturns /\ UNCHANGED NotFan

SpecFan == InitFan /\ [][NextFan]_vars

InitPigeon == InitEarly /\ LateParked("call") /\ PigeonInit

NextPigeon == PigeonCall /\ UNCHANGED NotCall

SpecPigeon == InitPigeon /\ [][NextPigeon]_vars

InitQuery == InitEarly /\ LateParked("call") /\ QueryInit

NextQuery == QueryCall /\ UNCHANGED NotCall

SpecQuery == InitQuery /\ [][NextQuery]_vars

InitTrigger == InitAll /\ RouterParked /\ PoolParked

NotTrigger == <<busVars, routerVars, flowVars, poolVars, moreVars>>

NextTrigger ==
    \/ \E k \in RawKinds : PushRaw(k) /\ UNCHANGED NotTrigger
    \/ \E w \in Workers : WorkerGet(w) /\ UNCHANGED NotTrigger
    \/ \E w \in Workers, ok \in BOOLEAN : HandlerFinish(w, ok) /\ UNCHANGED NotTrigger
    \/ \E w \in Workers : WorkerEmitDone(w) /\ UNCHANGED NotTrigger
    \/ StopCall /\ UNCHANGED NotTrigger
    \/ StopReturn /\ UNCHANGED NotTrigger

SpecTrigger == InitTrigger /\ [][NextTrigger]_vars

InitRouter == InitAll /\ TrigParked /\ PoolParked

NotRouter == <<busVars, trigVars, flowVars, poolVars, moreVars>>

NextRouter ==
    \/ \E k \in EventKinds, t \in Topics \cup {NoTopic} : RouterCall(k, t) /\ UNCHANGED NotRouter
    \/ \E ok \in BOOLEAN : RouteHandlerFinish(ok) /\ UNCHANGED NotRouter

SpecRouter == InitRouter /\ [][NextRouter]_vars

InitFlow == InitAll /\ TrigParked /\ RouterParked /\ PoolParked

NotFlow == <<busVars, trigVars, routerVars, poolVars, moreVars>>

NextFlow ==
    \/ Tick /\ UNCHANGED NotFlow
    \/ \E p \in Pids : FlowTrigger(p) /\ UNCHANGED NotFlow
    \/ \E t \in Trigs : FlowScrapeDone(t) /\ UNCHANGED NotFlow
    \/ BootStart /\ UNCHANGED NotFlow
    \/ \E found \in BOOLEAN : BootCurrent(found) /\ UNCHANGED NotFlow
    \/ BootScrapeDone /\ UNCHANGED NotFlow

SpecFlow == InitFlow /\ [][NextFlow]_vars

InitPool == InitAll /\ TrigParked /\ RouterParked

NotPool == <<busVars, trigVars, routerVars, flowVars, moreVars>>

NextPool ==
    \/ \E c \in Calls : RunPidCall(c) /\ UNCHANGED NotPool
    \/ \E c \in Calls : RecreateSlot(c) /\ UNCHANGED NotPool
    \/ \E o \in Objs : ExecStart(o) /\ UNCHANGED NotPool
    \/ \E o \in Objs, ok \in BOOLEAN : ExecFinish(o, ok) /\ UNCHANGED NotPool
    \/ \E i \in SlotIdx : ShutExecutorFault(i) /\ UNCHANGED NotPool
    \/ CloseStart /\ UNCHANGED NotPool
    \/ CloseSlot /\ UNCHANGED NotPool
    \/ CloseCurrent /\ UNCHANGED NotPool

SpecPool == InitPool /\ [][NextPool]_vars

\* run_current_once on the pool: the only run_pid is the one it makes
NextProbe ==
    \/ RunCurrentOnce /\ UNCHANGED NotPool
    \/ CurrentHeal /\ UNCHANGED NotPool
    \/ \E reply \in ProbeReplies : CurrentProbeDone(reply) /\ UNCHANGED NotPool
    \/ CurrentReturn /\ UNCHANGED NotPool
    \/ ShutCurrentFault /\ UNCHANGED NotPool
    \/ \E i \in SlotIdx : ShutExecutorFault(i) /\ UNCHANGED NotPool
    \/ \E c \in Calls : RecreateSlot(c) /\ UNCHANGED NotPool
    \/ \E o \in Objs : ExecStart(o) /\ UNCHANGED NotPool
    \/ \E o \in Objs, ok \in BOOLEAN : ExecFinish(o, ok) /\ UNCHANGED NotPool
    \/ CloseStart /\ UNCHANGED NotPool
    \/ CloseSlot /\ UNCHANGED NotPool
    \/ CloseCurrent /\ UNCHANGED NotPool

SpecProbe == InitPool /\ [][NextProbe]_vars

NotService == <<busVars, trigVars, routerVars, flowVars, sseVars, pubVars, codecVars, lateVars>>

\* run_once on the pool: the pool moves as under NextProbe, its
\* run_current_once being the one run_once makes
NextService ==
    \/ ServiceRunOnce /\ UNCHANGED NotService
    \/ \E isDict \in BOOLEAN, fromListOk \in BOOLEAN, online \in BOOLEAN :
          ServicePoolDone(isDict, fromListOk, online) /\ UNCHANGED NotService
    \/ \E dbOk \in BOOLEAN, sortOk \in BOOLEAN : ServiceDbDone(dbOk, sortOk) /\ UNCHANGED NotService
    \/ CurrentHeal /\ UNCHANGED NotPool
    \/ \E reply \in ProbeReplies : CurrentProbeDone(reply) /\ UNCHANGED NotPool
    \/ CurrentReturn /\ UNCHANGED NotPool
    \/ ShutCurrentFault /\ UNCHANGED NotPool
    \/ \E i \in SlotIdx : ShutExecutorFault(i) /\ UNCHANGED NotPool
    \/ \E c \in Calls : RecreateSlot(c) /\ UNCHANGED NotPool
    \/ \E o \in Objs : ExecStart(o) /\ UNCHANGED NotPool
    \/ \E o \in Objs, ok \in BOOLEAN : ExecFinish(o, ok) /\ UNCHANGED NotPool
    \/ CloseStart /\ UNCHANGED NotPool
    \/ CloseSlot /\ UNCHANGED NotPool
    \/ CloseCurrent /\ UNCHANGED NotPool

SpecService == InitPool /\ [][NextService]_vars

\* ------------------------------------------------------------------------
\* Claims on the snapshot bus
\* ------------------------------------------------------------------------

\* the bids frames of a subscriber, in the order they were yielded
RECURSIVE BidsOf(_)
BidsOf(fr) ==
    IF fr = <<>> THEN <<>>
    ELSE IF Head(fr) = 0 THEN BidsOf(Tail(fr))
         ELSE <<Head(fr)>> \o BidsOf(Tail(fr))

\* C3: whenever wait_update returns a snapshot, it is the one of the latest
\* publish made before the waiter resumed; with publish(x1), publish(x2) and
\* no wake-up in between the waiter observes x2, never x1.
C3_Coalescing ==
    \A s \in Subs : wret[s].val # None => wret[s].val = wret[s].at

\* a waiter that began waiting before x1, slept through x1 and x2, and returned x2
C3_Witness ==
    \E s \in Subs : wret[s].gen = 0 /\ wret[s].at = 2 /\ wret[s].val = 2

\* C4: the bids frames sent to one subscriber carry published snapshots in
\* strictly increasing publish order: a subsequence of the published
\* sequence, nothing reordered, nothing delivered twice.
C4_PublishOrder ==
    \A s \in Subs :
        LET b == BidsOf(sent[s]) IN
            /\ \A i \in 1..Len(b) : b[i] \in 1..npub
            /\ \A i \in 1..Len(b), j \in 1..Len(b) : i < j => b[i] < b[j]

\* a subscriber that got snapshot 1, missed snapshot 2 and got snapshot 3
C4_Witness ==
    \E s \in Subs : BidsOf(sent[s]) = <<1, 3>>

\* ------------------------------------------------------------------------
\* Claims on the queue and the trigger
\* ------------------------------------------------------------------------

\* ids of the queued items, oldest first
QueueIds == [i \in 1..Len(queue) |-> queue[i].id]

\* C2: once C or more items were put on a capacity-C queue with no get in
\* between, the queue holds exactly the last C items put, in put order.
C2_DropHead ==
    putsSinceGet >= cap => QueueIds = [i \in 1..cap |-> nput - cap + i]

\* C items were put and then K >= 1 more, without any get
C2_Witness ==
    /\ putsSinceGet > cap
    /\ cap > 1
    /\ stopPc = "running"

\* C8: when a handler raised during a dispatch, every handler of that event
\* still ran to completion, the item was acknowledged and the worker is back
\* at taking the next item.
C8_HandlerErrorSwallowed ==
    wlast.raised > 0 =>
        /\ wlast.fin = NHandlers
        /\ wlast.acked
        /\ wlast.pc = "get"

\* one handler raised, another completed normally, and the worker went on
C8_Witness ==
    /\ wlast.raised > 0
    /\ wlast.raised < NHandlers
    /\ wlast.pc = "get"

\* sentinels waiting in the queue
SentinelsQueued == Cardinality({i \in 1..Len(queue) : queue[i].kind = "sentinel"})

\* workers that have not left their loop
LiveWorkers == {w \in 1..nworkers : wpc[w] \notin {"exited", "dead"}}

\* C9: after stop() has enqueued its sentinels, every worker that has not
\* left its loop has a sentinel waiting for it, so that each worker exits
\* and stop() returns, for every capacity and worker count.
C9_EveryWorkerGetsSentinel ==
    stopPc = "gather" => SentinelsQueued >= Cardinality(LiveWorkers)

\* ------------------------------------------------------------------------
\* Claims on the topic router
\* ------------------------------------------------------------------------

\* C7: when topic_router has handled an mqtt_publish event, every route whose
\* regex matches the topic had its handler invoked; for an event of another
\* kind no route handler was invoked.
C7_EveryMatchingRouteInvoked ==
    rPc = "done" =>
        IF rEv.kind = "mqtt_publish"
          THEN \A i \in Routes : Matches(i, rEv.topic) => i \in rInvoked
          ELSE rInvoked = {}

\* ------------------------------------------------------------------------
\* Claims on the flow handler
\* ------------------------------------------------------------------------

TheChain == <<"run_current_once", "enrich", "publish">>

\* C5: a realtime trigger that was accepted, and the startup hook, have run
\* the chain run_current_once, then enrichment, then one publish on the
\* snapshot bus, in this order, by the time they are done.
C5_ChainOrder ==
    /\ \A t \in Trigs : fpc[t] = "done" => fcalls[t] = TheChain
    /\ bootPc = "done" => bootCalls = TheChain

\* the scrapes invocation t has started
Scrapes(t) == Cardinality({i \in 1..Len(fcalls[t]) : fcalls[t][i] = "run_pids_crawler"})

\* the claim's rule, from the history of triggers alone: a trigger is accepted
\* unless an earlier accepted trigger of its pid is less than the cooldown old
RECURSIVE RuleAccepted(_)
RuleAccepted(t) ==
    LET prev == {u \in 1..(t - 1) : fpid[u] = fpid[t] /\ RuleAccepted(u)}
    IN  \/ prev = {}
        \/ LET last == CHOOSE u \in prev : \A v \in prev : v <= u
           IN ftime[t] - ftime[last] >= Cooldown

\* the time of the last trigger of pid p that the rule accepts, 0 when none
RuleLastAccepted(p) ==
    LET acc == {u \in 1..ntrig : fpid[u] = p /\ RuleAccepted(u)}
    IN IF acc = {} THEN 0 ELSE ftime[CHOOSE u \in acc : \A v \in acc : v <= u]

InFlight(i) == {o \in Objs : objIdx[o] = i /\ objRunning[o] # 0}

\* C1: at every instant at most one run_crawl is in flight per slot, for any
\* number of concurrent run_pid callers, rebuilds of a slot included.
C1_OneInFlightPerSlot ==
    \A i \in SlotIdx : Cardinality(InFlight(i)) <= 1

\* C10: a run_pid call made while the pool is open never raises to its
\* caller: a shut-down executor or a scraper failing inside run_crawl is
\* healed by rebuilding the slot and the call completes with a result.
C10_NoCallerVisibleFailure ==
    \A c \in Calls : cpc[c] = "raised" => cwhy[c] = "pool_closed"

\* C11: whenever run_current_once ends without having obtained a current pid
\* (the probe reports none, its request fails or answers a non-object, or
\* the pool is closed), it has returned the empty result: it has not raised
\* and it has not entered run_pid.
C11_NoPidReturnsEmpty ==
    (curPc \in {"returned_none", "raised"} /\ curCall = 0) => curPc = "returned_none"

LiveScrapers ==
    Cardinality({o \in Objs : objCrawler[o] = "live"}) + (IF curCrawler = "live" THEN 1 ELSE 0)

\* C13: at any time at most pool_size + 1 scraper instances are live, over
\* every interleaving of run_pid, rebuilds and close().
C13_AtMostPPlusOneScrapers ==
    LiveScrapers <= poolSize + 1

\* C14: every call on a scraper runs on the one thread of the executor that
\* owns it.  run_crawl and get_current_pigeon_info are submitted to that
\* executor by construction of the model; what remains is close(): no
\* scraper has been closed from another thread.
C14_OnlyTheOwningThread ==
    /\ \A o \in Objs : objClosedOn[o] \in {"none", "slot"}
    /\ curClosedOn \in {"none", "current"}

\* ------------------------------------------------------------------------
\* Claims on PigeonService
\* ------------------------------------------------------------------------

\* C15: run_once never raises; whatever failed on the way (the pool call,
\* no current pid, the history query, the construction of the records), it
\* returns a pair of a current_info and a list of records.
C15_RunOnceNeverRaises ==
    /\ svcPc # "raised"
    /\ svcPc = "returned" => svcInfo \in {"default", "given"} /\ svcRecords \in {"empty", "built"}

\* run_once returned the default pair although run_current_once gave None
C15_Witness ==
    /\ svcPc = "returned"
    /\ curPc = "returned_none"
    /\ svcInfo = "default"
    /\ svcRecords = "empty"

\* C16: with no publish, a subscriber is sent the keep-alive comment each
\* time its 15 s wait times out and never a bids frame: once 16 s have passed
\* since it connected, or since the last publish, the frames it was sent in
\* that time are all keep-alive comments and there is at least one.
C16_KeepAliveOnTimeout ==
    \A s \in Subs :
       /\ \A i \in 1..Len(heard[s]) : heard[s][i] = 0
       /\ (spc[s] \in {"waiting", "check"} /\ quiet[s] >= WAIT_TIMEOUT + 1) => Len(heard[s]) >= 1

C16_Witness ==
    \E s \in Subs :
       /\ spc[s] = "waiting"
       /\ quiet[s] = WAIT_TIMEOUT + 1
       /\ snapshot # None
       /\ heard[s] = <<0>>

\* the form pigeon/auctions/<digits>/pigeons/<digits>
AuctionPigeonForm(topic) ==
    /\ Len(topic) = 5
    /\ topic[1] = "pigeon"
    /\ topic[2] = "auctions"
    /\ IsDigits(topic[3])
    /\ topic[4] = "pigeons"
    /\ IsDigits(topic[5])

\* C17: a decoded PUBLISH whose topic has the form
\* pigeon/auctions/<digits>/pigeons/<digits> invokes the flow handler, and a
\* PUBLISH on any other topic does not.
C17_AuctionTopicInvokesFlow ==
    (pubPc = "routed" /\ pubEv.kind = "mqtt_publish") =>
        (pubFlow <=> AuctionPigeonForm(pubEv.topic))

\* the first 64 bytes of the payload, decoded as lenient UTF-8
PreviewOf(payload) == Utf8Decode(Take(payload, PREVIEW_BYTES), "ignore")

\* C18 as stated: decoding the PUBLISH framing of (topic, payload, qos), qos
\* in {0, 1, 2}, yields the same topic and a preview equal to the first 64
\* bytes of the payload decoded as lenient UTF-8.
C18_FramingRoundTrip ==
    (codecPc = "decoded" /\ framed # NoFraming) =>
        /\ pub # NoPub
        /\ pub.topic = framed.topic
        /\ pub.payload_preview = PreviewOf(framed.payload)

\* C18, amended: decoding the PUBLISH framing of (topic, payload, qos) yields
\* the same topic and a preview equal to the first 64 bytes of the payload
\* decoded as lenient UTF-8 with the white space at both ends removed.
C18_FramingRoundTripTrimmed ==
    (codecPc = "decoded" /\ framed # NoFraming) =>
        /\ pub # NoPub
        /\ pub.topic = framed.topic
        /\ pub.payload_preview = RStrip(LStrip(PreviewOf(framed.payload)))

\* a QoS 1 framing with a two-byte Remaining Length, a two-byte character in
\* the topic and a payload of 129 bytes that begins with a space
C18_Witness ==
    /\ codecPc = "decoded"
    /\ framed.qos = 1
    /\ framed.topic = <<97, 233>>
    /\ framed.payload = <<32>> \o Rep(97, 2 * PREVIEW_BYTES)
    /\ raw[2] >= 128
    /\ pub.payload_preview = Rep(97, PREVIEW_BYTES - 1)

\* the two-byte buffers C0 00 and D0 00
IsHeartbeat(buf) == Len(buf) = 2 /\ buf[1] \in {192, 208} /\ buf[2] = 0

\* C19: for a 2-byte buffer [b0, 0x00] with b0 in {0xC0, 0xD0} the decoder
\* emits no event; every other binary buffer is not treated as a heartbeat
\* but goes on to the remaining steps, which give an event to every buffer
\* of the minimum length.
C19_OnlyTwoByteHeartbeats ==
    codecPc = "made" =>
        IF IsHeartbeat(raw) THEN event = NoEvent
        ELSE Len(raw) >= MIN_BIN_LEN => event # NoEvent

\* a buffer whose first byte says PUBLISH and which decode_mqtt_publish gives up on
MalformedPublish(buf) ==
    /\ buf # <<>>
    /\ buf[1] \div 16 = 3
    /\ DecodeMqttPublish(buf) = NoPub

\* a PUBLISH whose topic bytes are not valid UTF-8
BadUtf8Topic(buf) ==
    LET p == DecodeMqttPublish(buf) IN
    p # NoPub /\ \E i \in 1..Len(p.topic) : p.topic[i] = REPLACEMENT

\* C20: a binary frame that is a malformed MQTT PUBLISH, or whose topic
\* bytes are not valid UTF-8, is dropped: no event of any kind is emitted.
C20_MalformedPublishDropped ==
    (codecPc = "made" /\ (MalformedPublish(raw) \/ BadUtf8Topic(raw))) => event = NoEvent

\* C21: for every n in [0, 268435455], decoding the Remaining-Length
\* encoding of n yields n and advances the read index by exactly the number
\* of encoded bytes, 1 to 4.
C21_VarintRoundTrip ==
    callPc = "returned" =>
        /\ callRet.val = callArg.n
        /\ callRet.idx - callArg.i = Len(EncodeVarint(callArg.n))
        /\ callRet.idx - callArg.i \in 1..4

\* the greatest number, four bytes, read behind two bytes and before others
C21_Witness ==
    /\ callPc = "returned"
    /\ callArg.n = 268435455
    /\ callArg.buf = <<128, 128, 255, 255, 255, 127, 128, 1>>
    /\ callRet = [val |-> 268435455, idx |-> 6]

Transient(outcome) == outcome \in {"1205", "1213"}

\* C22: a statement that fails with error 1205 or 1213 is rolled back and
\* retried at most 3 times, with sleeps of 0.2 s, 0.4 s and 0.8 s before the
\* successive retries; the wrapper returns on the first success; the error
\* reaches the caller only when the retries are used up, and any other error
\* reaches it at once.
C22_RetryWithBackoff ==
    LET n == Len(rwLog) IN
    /\ rwAttempt <= 3
    /\ rwSleeps = SubSeq(<<200, 400, 800>>, 1, rwAttempt)
    /\ \A k \in 1..(n - 1) : Transient(rwLog[k])
    /\ rwPc = "executing" => n = rwAttempt
    /\ rwPc # "executing" => n = rwAttempt + 1
    /\ rwPc = "returned" => rwLog[n] = "ok" /\ rwRaised = "nothing"
    /\ rwPc = "raised" =>
          /\ rwLog[n] # "ok"
          /\ rwRaised = rwLog[n]
          /\ Transient(rwLog[n]) => rwAttempt = 3
    /\ rwWrapper = "cursor" => rwUndone = rwAttempt
    /\ rwWrapper = "ctx" => rwUndone = Cardinality({k \in 1..n : rwLog[k] # "ok"})

\* three retries used up, then the fourth failure reaches the caller
C22_Witness ==
    /\ rwWrapper = "cursor"
    /\ rwPc = "raised"
    /\ rwLog = <<"1213", "1205", "1213", "1205">>
    /\ rwSleeps = <<200, 400, 800>>
    /\ rwUndone = 3
    /\ rwRaised = "1205"

\* C23: batch upsert is idempotent: when the same batch has been upserted
\* twice in a row, the stored rows are exactly those the first upsert left.
C23_UpsertIdempotent ==
    (upPc = "returned" /\ upCalls = 2) => table = afterFirst


\* ------------------------------------------------------------------------
\* C24
\* ------------------------------------------------------------------------
\* the ids of the latest fetch the last call was given
SweptIds ==
    IF gpOp = "make_status_as_finished" THEN Range(gpArg)
    ELSE {gpArg[i].id : i \in DOMAIN gpArg}

\* C24: a status sweep for a non-empty id set S sets the status to finished
\* on exactly the stored rows whose id is not in S and leaves every other row
\* and column as it was; with an empty S nothing changes; the same sweep
\* applied a second time leaves the rows the first left.
C24_StatusSweep ==
    gpPc = "done" =>
        /\ SweptIds = {} => gpTable = gpBefore
        /\ SweptIds # {} =>
            /\ \A i \in DOMAIN gpBefore \ SweptIds :
                /\ i \in DOMAIN gpTable
                /\ gpTable[i].status_name = FINISHED
                /\ gpTable[i].name = gpBefore[i].name
            /\ gpOp = "make_status_as_finished" =>
                /\ DOMAIN gpTable = DOMAIN gpBefore
                /\ \A i \in DOMAIN gpBefore \cap SweptIds : gpTable[i] = gpBefore[i]
            /\ \A i \in DOMAIN gpTable \ SweptIds : i \in DOMAIN gpBefore
        /\ gpCalls = 2 => gpTable = gpAfterFirst

\* the sweep has been applied twice; a row outside S and a running row
\* inside S are stored
C24_Witness ==
    /\ gpPc = "done"
    /\ gpCalls = 2
    /\ gpOp = "make_status_as_finished"
    /\ SweptIds # {}
    /\ \E i \in DOMAIN gpTable \ SweptIds : TRUE
    /\ \E i \in DOMAIN gpTable \cap SweptIds : gpTable[i].status_name = "running"
    /\ gpFaults = 0


\* ------------------------------------------------------------------------
\* C25
\* ------------------------------------------------------------------------
\* the largest element of a non-empty set of numbers, 0 for the empty set
MaxOf(S) == IF S = {} THEN 0 ELSE CHOOSE m \in S : \A x \in S : x <= m

\* the quotes of the rows, summed
RECURSIVE SumQuotes(_)
SumQuotes(rows) == IF rows = <<>> THEN 0 ELSE rows[1].quote + SumQuotes(Tail(rows))

\* the second-largest quote of the rows, with multiplicity; 0 when there are
\* fewer than two
SecondQuote(rows) ==
    LET top == MaxOf({rows[i].quote : i \in DOMAIN rows})
        first == CHOOSE i \in DOMAIN rows : rows[i].quote = top
    IN  IF Len(rows) < 2 THEN 0 ELSE MaxOf({rows[i].quote : i \in DOMAIN rows \ {first}})

\* the record's field `name` holds `value`
HasField(r, name, value) == name \in DOMAIN r /\ r[name] = value

\* C25: after enrichment every ledger record of an online bidder carries all
\* history rows the store holds for its user code, and its eight auction_*
\* fields are the store's statistics for that user code, over the record's
\* auction and over all auctions.
C25_EnrichedFromStore ==
    callPc = "returned" =>
        \A i \in DOMAIN callRet :
            LET r == callRet[i]
                all == callArg.store[r.user_code]
                cur == SelectSeq(all, LAMBDA row : row.auction_id = r.auction_id)
            IN  (r.type = "online" /\ r.user_code # "") =>
                    /\ r.results = all
                    /\ HasField(r, "auction_bid_count", Len(cur))
                    /\ HasField(r, "auction_total_price", SumQuotes(cur))
                    /\ HasField(r, "auction_highest_price", MaxOf({cur[k].quote : k \in DOMAIN cur}))
                    /\ HasField(r, "auction_second_highest_price", SecondQuote(cur))
                    /\ HasField(r, "auction_bid_count_all", Len(all))
                    /\ HasField(r, "auction_total_price_all", SumQuotes(all))
                    /\ HasField(r, "auction_highest_price_all", MaxOf({all[k].quote : k \in DOMAIN all}))
                    /\ HasField(r, "auction_second_highest_price_all", SecondQuote(all))


\* ------------------------------------------------------------------------
\* C26
\* ------------------------------------------------------------------------
\* the five components of the ranking key of a row, larger first; the score
\* is scaled to the common denominator 60 of the fractions that occur
RankKey(r) ==
    <<IF r._match_exact THEN 1 ELSE 0,
      IF r._match_hit THEN 1 ELSE 0,
      (r._match_score[1] * 60) \div r._match_score[2],
      r._agg_count,
      r._agg_total>>

\* key x comes before key y, or is equal to it, in the lexicographic order
\* with every component descending
LexGeq(x, y) ==
    \/ x = y
    \/ \E k \in 1..5 : x[k] > y[k] /\ \A l \in 1..(k - 1) : x[l] = y[l]

\* the bijections of 1..n
Perms(n) == {p \in [1..n -> 1..n] : \A i, j \in 1..n : p[i] = p[j] => i = j}

\* C26: after ranking, a history list is ordered by the key (exact, hit, score,
\* agg_count, agg_total), each descending, and it is the input rearranged so
\* that rows with equal keys keep their relative input order.
C26_RankedByKey ==
    callPc = "returned" =>
        LET out == callRet
            n == Len(callArg.rows)
        IN  /\ Len(out) = n
            /\ \A i \in 1..(n - 1) : LexGeq(RankKey(out[i]), RankKey(out[i + 1]))
            /\ \E p \in Perms(n) :
                /\ \A k \in 1..n :
                    /\ out[k].matcher_name = callArg.rows[p[k]].matcher_name
                    /\ out[k].quote = callArg.rows[p[k]].quote
                /\ \A k, l \in 1..n :
                    (k < l /\ RankKey(out[k]) = RankKey(out[l])) => p[k] < p[l]

\* a list was ranked in which a later row moved to the front and two rows
\* that differ have equal keys
C26_Witness ==
    /\ callPc = "returned"
    /\ Len(callRet) = MaxRows
    /\ callRet[1].matcher_name = callArg.rows[MaxRows].matcher_name
    /\ callRet[1].matcher_name # callArg.rows[1].matcher_name
    /\ \E k \in 1..(MaxRows - 1) :
        /\ RankKey(callRet[k]) = RankKey(callRet[k + 1])
        /\ callRet[k].quote # callRet[k + 1].quote


\* ------------------------------------------------------------------------
\* C27
\* ------------------------------------------------------------------------
\* the fetched rows of a user code, and those of the current auction
RowsOf(uc) == SelectSeq(callArg.rows, LAMBDA row : row.bid_user_code = uc)
RowsInAuction(uc) == SelectSeq(RowsOf(uc), LAMBDA row : row.auction_id = callArg.auction_id)

\* C27: for every bidder and every order in which the rows are processed,
\* highest_price(_all) is the largest and second_highest_price(_all) the
\* second-largest quote of the multiset of that bidder's rows of the current
\* auction (of all auctions), 0 when there is no such row.
C27_TopTwoPrices ==
    callPc = "returned" =>
        /\ DOMAIN callRet = {callArg.rows[i].bid_user_code : i \in DOMAIN callArg.rows}
        /\ \A uc \in DOMAIN callRet :
            LET all == RowsOf(uc)
                cur == RowsInAuction(uc)
            IN  /\ callRet[uc].highest_price_all = MaxOf({all[k].quote : k \in DOMAIN all})
                /\ callRet[uc].second_highest_price_all = SecondQuote(all)
                /\ callRet[uc].highest_price = MaxOf({cur[k].quote : k \in DOMAIN cur})
                /\ callRet[uc].second_highest_price = SecondQuote(cur)

\* rows were processed in ascending order of quote: a bidder has the quotes
\* 900, 1200, 1500 in this order, the largest outside the current auction
C27_Witness ==
    /\ callPc = "returned"
    /\ \E uc \in DOMAIN callRet :
        /\ [k \in DOMAIN RowsOf(uc) |-> RowsOf(uc)[k].quote] = <<900, 1200, 1500>>
        /\ callRet[uc].highest_price_all = 1500
        /\ callRet[uc].second_highest_price_all = 1200
        /\ callRet[uc].highest_price = 1200
        /\ callRet[uc].second_highest_price = 900


\* ------------------------------------------------------------------------
\* C28
\* ------------------------------------------------------------------------
\* s is a subsequence of b
RECURSIVE IsSubsequence(_, _)
IsSubsequence(s, b) ==
    IF s = <<>> THEN TRUE
    ELSE IF b = <<>> THEN FALSE
    ELSE IF s[1] = b[1] THEN IsSubsequence(Tail(s), Tail(b))
    ELSE IsSubsequence(s, Tail(b))

\* the characters of a at the 0-based indexes I, in order
Pick(a, I) == SelectSeq([k \in DOMAIN a |-> IF (k - 1) \in I THEN <<a[k]>> ELSE <<>>],
                        LAMBDA c : c # <<>>)

\* the length of a longest common subsequence of a and b
LcsLength(a, b) ==
    MaxOf({Cardinality(I) : I \in {J \in SUBSET (0..(Len(a) - 1)) : 
        IsSubsequence([k \in 1..Len(Pick(a, J)) |-> Pick(a, J)[k][1]], b)}})

\* the indexes a list of spans covers
Covered(spans) == UNION {spans[k][1]..(spans[k][2] - 1) : k \in DOMAIN spans}

\* C28: the highlight spans of a against b are non-empty half-open ranges
\* within [0, len(a)], strictly increasing with a gap between neighbours;
\* together they are as long as a longest common subsequence of a and b, and
\* the characters of a they cover, read in order, are a subsequence of b.
C28_HighlightSpans ==
    callPc = "returned" =>
        LET a == callArg.a
            b == callArg.b
            spans == callRet
            picked == Pick(a, Covered(spans))
        IN  /\ \A k \in DOMAIN spans : 0 <= spans[k][1] /\ spans[k][1] < spans[k][2] /\ spans[k][2] <= Len(a)
            /\ \A k \in 1..(Len(spans) - 1) : spans[k][2] < spans[k + 1][1]
            /\ Cardinality(Covered(spans)) = LcsLength(a, b)
            /\ IsSubsequence([k \in 1..Len(picked) |-> picked[k][1]], b)

\* two spans were returned, fewer characters covered than a has, and b holds
\* a character that a does not
C28_Witness ==
    /\ callPc = "returned"
    /\ Len(callRet) = 2
    /\ Len(callArg.a) = MaxStr
    /\ \E k \in DOMAIN callArg.b : \A i \in DOMAIN callArg.a : callArg.a[i] # callArg.b[k]


\* ------------------------------------------------------------------------
\* C29
\* ------------------------------------------------------------------------
\* C29: a request that follows another on the same scraper starts at least
\* min_delay after the earlier one was completed, whether that one gave a
\* response or failed, and the wait of the throttle is never longer than
\* max_delay.
C29_ThrottleBounds ==
    /\ (crPc = "requesting" /\ crReqs > 0) => crStart - crLast >= crMin
    /\ crWait <= crMax

\* a second request starts exactly min_delay after the first was completed,
\* part of min_delay having passed before it was called
C29_Witness ==
    /\ crPc = "requesting"
    /\ crReqs = 1
    /\ crMin = MaxDelay
    /\ crStart - crLast = crMin
    /\ crWait > 0
    /\ crWait < crMin
    /\ crResult = "nothing"


\* ------------------------------------------------------------------------
\* C30
\* ------------------------------------------------------------------------
\* C30 as stated: fetch and fetch_post never raise; for every combination of
\* arguments and every failure they give a response or the absent value.
C30_WrappersNeverRaise ==
    crResult \in {"nothing", "response", "absent"}

\* C30, amended: fetch and fetch_post give a response or the absent value
\* whatever the request's transport or status failure; the one exception
\* that leaves them is the ValueError of fetch_post called with both data and
\* json, raised before any request is made.
C30_WrappersRaiseOnlyOnBothBodies ==
    /\ crResult \in {"nothing", "response", "absent", "ValueError"}
    /\ crResult = "ValueError" <=>
        (crPc = "idle" /\ crCall.wrapper = "fetch_post" /\ crCall.data /\ crCall.json)
    /\ (crPc = "idle" /\ crCall.wrapper = "fetch") => crResult \in {"response", "absent"}

\* fetch_post has returned the absent value after a status that made the
\* scraper rebuild its session twice
C30_Witness ==
    /\ crPc = "idle"
    /\ crCall.wrapper = "fetch_post"
    /\ crResult = "absent"
    /\ crSessions = 2
    /\ crReqs = 1


RECURSIVE RecordsOf(_, _)
\* the records of the first n fetched pages, page after page
RecordsOf(resp, n) ==
    IF n = 0 THEN <<>>
    ELSE RecordsOf(resp, n - 1) \o
         [i \in 1..Cardinality({j \in 1..Len(resp[n].rows) : resp[n].rows[j] = "good"}) |->
             [page |-> resp[n].page,
              row |-> CHOOSE j \in 1..Len(resp[n].rows) :
                         /\ resp[n].rows[j] = "good"
                         /\ Cardinality({k \in 1..j : resp[n].rows[k] = "good"}) = i]]

\* a fetched page that ends the crawl: an empty list (or no list at all), or a short list
ShortPage(r) == r.rows = <<>> \/ Len(r.rows) < caPageSize

C32_PagesInOrder ==
    /\ \A i \in 1..Len(caResp) : caResp[i].page = i
    /\ \A i \in 1..(Len(caResp) - 1) : ~ShortPage(caResp[i])
    /\ caPc = "crawling" => /\ caPageNo = Len(caResp) + 1
                            /\ \A i \in 1..Len(caResp) : ~ShortPage(caResp[i])
    /\ caPc = "returned" => /\ caResp # <<>>
                            /\ ShortPage(caResp[Len(caResp)])
    /\ caPc # "idle" => caItems = RecordsOf(caResp, Len(caResp))

C33_OneThreadPerWorker ==
    /\ \A t \in FanThreads, u \in FanThreads :
          (t # u /\ fanThread[t] # NoTask /\ fanThread[u] # NoTask) => UsedBy(t) # UsedBy(u)
    /\ fanSpaced


\* ----------------------------------------------------------------------
\* C34: PigeonInfo.from_dict raises for a row whose end time is earlier than its start
\* time, whose start_price is negative, or whose margin_ratio lies outside [0, 1]
\* ----------------------------------------------------------------------

\* the three faults of a row, read off the converted values
EndBeforeStart(row) == row.start_time.kind = "num" /\ row.end_time.kind = "num" /\ row.end_time.val < row.start_time.val

NegativePrice(row) == row.start_price.kind = "num" /\ row.start_price.val < 0

RatioOutOfRange(row) == row.margin_ratio.kind = "num" /\ (row.margin_ratio.val < 0 \/ row.margin_ratio.val > 10)

C34_InvalidRowRaises ==
    (callPc = "returned" /\ (\/ EndBeforeStart(Combined(callArg))
                             \/ NegativePrice(Combined(callArg))
                             \/ RatioOutOfRange(Combined(callArg))))
        => callRet.exc # "none"


\* ----------------------------------------------------------------------
\* C35: when insert_or_update_pigeon_info_batch has returned without raising, every row
\* of every chunk of the batch is in the committed table, also after a chunk was retried
\* ----------------------------------------------------------------------

\* the committed table holds every row of the batch: writing the batch once more changes nothing
C35_AllChunksCommitted ==
    (dao = "pigeon" /\ upPc = "returned") => UpsertRows(table, batch) = table


\* ----------------------------------------------------------------------
\* C36: once publishing has stopped, the latest bids frame written to every subscriber
\* that stays connected carries the last published snapshot
\* ----------------------------------------------------------------------

\* the snapshot of the latest bids frame written to s (keep-alives skipped), if any
LastBids(s) ==
    LET bids == {i \in 1..Len(sent[s]) : sent[s][i] # 0}
    IN IF bids = {} THEN None ELSE sent[s][CHOOSE i \in bids : \A j \in bids : j <= i]

\* s is connected, stays in its loop and may still be written to
Listening(s) == spc[s] \in {"check", "waiting"} /\ ~disconnected[s] /\ Len(sent[s]) < MaxFrames

C36_LatestReachesSubscribers ==
    <>[](\A s \in Subs : (Listening(s) /\ snapshot # None) => LastBids(s) = snapshot)


\* ----------------------------------------------------------------------
\* C37: for one pid at most one scrape is in progress at a time: no trigger starts a scrape
\* of a pid while an earlier scrape of that pid is still running
\* ----------------------------------------------------------------------

C37_OneScrapePerPid ==
    \A t \in Trigs, u \in Trigs :
        (t # u /\ fpc[t] = "scraping" /\ fpc[u] = "scraping") => fpid[t] # fpid[u]


\* ----------------------------------------------------------------------
\* C38: for the same user codes, auction and store, query_bid_statistics_and_deals
\* returns the same statistics and deals for every chunk_size >= 1; every stored row is
\* counted once and deals[user_code] is sorted by quote descending, also when user_codes
\* holds a code twice or codes that differ only in surrounding blanks
\* ----------------------------------------------------------------------

C38_ChunkSizeIndependent ==
    callPc = "returned" =>
        /\ \A chunk_size \in 1..MaxChunk :
              QueryBidStatisticsAndDeals(callArg.store, callArg.user_codes, callArg.auction_id,
                                         chunk_size) = callRet
        /\ \A uc \in DOMAIN callRet.statistics :
              callRet.statistics[uc].deal_count_all = Len(callArg.store[uc])
        /\ \A uc \in DOMAIN callRet.completed_deals :
              \A i \in 1..(Len(callRet.completed_deals[uc]) - 1) :
                  callRet.completed_deals[uc][i].quote >= callRet.completed_deals[uc][i + 1].quote


\* ----------------------------------------------------------------------
\* C39: the payload_preview of a decoded PUBLISH is made of bytes inside the packet as its
\* Remaining Length delimits it; bytes that follow the packet in the buffer never appear
\* ----------------------------------------------------------------------

C39_PreviewInsidePacket ==
    (codecPc = "decoded" /\ framed # NoFraming /\ pub # NoPub) =>
        pub.payload_preview = Strip(PreviewOf(framed.payload))


\* ----------------------------------------------------------------------
\* C40: no raw message taken from the queue, however malformed, ends a worker: from
\* start() until stop() all W workers are alive and keep taking items
\* ----------------------------------------------------------------------

C40_WorkersSurviveRawMessages ==
    stopPc = "running" => \A w \in 1..nworkers : wpc[w] \in {"get", "emit"}

======================================================================
